---------------------------- MODULE Spec2Model ----------------------------
(***************************************************************************)
(* A model of the DataHub Soda plugin:                                     *)
(*   datahub_soda_plugin/handler.py  DataHubSodaHandler and its helpers    *)
(*   datahub_soda_plugin/cli.py      the command-line entry point          *)
(*                                                                         *)
(* Python values are modelled as follows.                                  *)
(*   - a str is the sequence of its characters (each a one-character       *)
(*     string), so that lower(), equality and substring tests are computed *)
(*     and not assumed; the empty str is <<>>;                             *)
(*   - None (a JSON null) and an absent dict key are the one-element       *)
(*     sequences None and Missing, which no str equals;                    *)
(*   - a dict is a record over the keys the code reads, an absent key      *)
(*     holding Missing; its field "json" tells a JSON object ("object")    *)
(*     from any other JSON value ("other"), on which .get raises;          *)
(*   - a raised exception is a record with raised |-> TRUE.                *)
(***************************************************************************)
EXTENDS Integers, Sequences, FiniteSets, TLC

\* ------------------------------------------------------------------ bounds
\* Longest "tables" list of a scan result.
MaxTables == 2
\* Longest "checks" list of a scan result.
MaxChecks == 2
\* Longest "metrics" list of a check.
MaxMetrics == 2
\* Longest policies list handed to validate_governance_policies.
MaxPolicies == 3

\* ----------------------------------------------------------------- strings
None == <<"#None">>
Missing == <<"#Missing">>

UpperLetters == <<"A","B","C","D","E","F","G","H","I","J","K","L","M",
                  "N","O","P","Q","R","S","T","U","V","W","X","Y","Z">>
LowerLetters == <<"a","b","c","d","e","f","g","h","i","j","k","l","m",
                  "n","o","p","q","r","s","t","u","v","w","x","y","z">>

\* The lower-case letter of each upper-case letter.
LowerTable ==
    [c \in {UpperLetters[i] : i \in DOMAIN UpperLetters} |->
        LowerLetters[CHOOSE i \in DOMAIN UpperLetters : UpperLetters[i] = c]]

\* str.lower() on one character.
LowerChar(c) == IF c \in DOMAIN LowerTable THEN LowerTable[c] ELSE c

\* A Python str (as opposed to None or an absent key).
IsStr(v) == v # None /\ v # Missing

\* str.lower(); the caller checks IsStr first (None.lower() raises).
Lower(s) == [i \in DOMAIN s |-> LowerChar(s[i])]

\* Python truthiness of an Optional[str]: None and "" are falsy.
Truthy(v) == v # None /\ v # Missing /\ v # <<>>

\* What an f-string renders for a value: a str as itself, None as "None".
Fmt(v) == IF v = None THEN <<"N","o","n","e">> ELSE v

\* The Python test `sub in s` on two strs.
Contains(s, sub) ==
    \E i \in 0..(Len(s) - Len(sub)) : SubSeq(s, i + 1, i + Len(sub)) = sub

\* dict.get(key, default) on a field already read from the record.
Get(field, default) == IF field = Missing THEN default ELSE field

\* ---------------------------------------------------------- string values
s_users == <<"u","s","e","r","s">>
s_public == <<"p","u","b","l","i","c">>
s_mydb == <<"m","y","d","b">>
s_postgres == <<"p","o","s","t","g","r","e","s">>
\* Short names, for the scans whose whole run is explored.
s_tb == <<"t","b">>
s_TB == <<"T","B">>
s_sc == <<"s","c">>
s_db == <<"d","b">>
s_Spark == <<"S","p","a","r","k">>
s_null == <<"n","u","l","l">>
s_count == <<"c","o","u","n","t">>
s_unknown == <<"u","n","k","n","o","w","n">>
s_unknown_check == <<"u","n","k","n","o","w","n","_","c","h","e","c","k">>
s_soda == <<"s","o","d","a">>
s_PROD == <<"P","R","O","D">>
s_dot == <<".">>
s_id == <<"i","d">>
s_pass == <<"p","a","s","s">>
s_PASS == <<"P","A","S","S">>
s_Passed == <<"P","a","s","s","e","d">>
s_success == <<"s","u","c","c","e","s","s">>
s_fail == <<"f","a","i","l">>
s_passx == <<"p","a","s","s"," ">>
s_missing_count == <<"m","i","s","s","i","n","g","_","c","o","u","n","t">>
s_row_count == <<"r","o","w","_","c","o","u","n","t">>
s_c1 == <<"c","1">>
s_c2 == <<"c","2">>
s_q1 == <<"q","1">>
s_scan1 == <<"s","1">>
\* The fallback scan id f"scan_{int(time.time())}" (handler.py line 136).
s_scan_now == <<"s","c","a","n","_","t">>

\* The platform_map of _build_dataset_urn, as the set of its keys: every key
\* maps to itself.
platform_map ==
    { s_postgres,
      <<"s","n","o","w","f","l","a","k","e">>,
      <<"b","i","g","q","u","e","r","y">>,
      <<"r","e","d","s","h","i","f","t">>,
      <<"m","y","s","q","l">>,
      <<"m","s","s","q","l">>,
      <<"o","r","a","c","l","e">>,
      <<"d","a","t","a","b","r","i","c","k","s">>,
      <<"s","p","a","r","k">> }

SODA_PLATFORM_NAME == s_soda

\* ------------------------------------------------------- optional integers
\* Optional[int]: None, or an int.
NoInt == [some |-> FALSE, n |-> 0]
SomeInt(n) == [some |-> TRUE, n |-> n]

\* ------------------------------------------------------------ dataset URNs
\* What a function returns: a value, or the exception it raised.
Returned(v) == [raised |-> FALSE, value |-> v]
Raised(e) == [raised |-> TRUE, error |-> e]

\* Optional[str] dataset URN: None.
NoneUrn == [isNone |-> TRUE]

\* builder.make_dataset_urn_with_platform_instance (the datahub library, called
\* at handler.py lines 283-288): the URN of (platform, name, instance, env),
\* kept as the record of its parts.  The library rejects a name or a platform
\* that is not a non-empty str by raising.
make_dataset_urn_with_platform_instance(platform, name, platform_instance, env) ==
    IF Truthy(name) /\ Truthy(platform)
    THEN Returned([isNone |-> FALSE, platform |-> platform, name |-> name,
                   instance |-> platform_instance, env |-> env])
    ELSE Raised("InvalidUrnError")

\* The dataset name composed at lines 271-277 (f-strings render None as "None").
dataset_name_of(database_name, schema_name, table_name) ==
    IF Truthy(database_name) /\ Truthy(schema_name)
    THEN Fmt(database_name) \o s_dot \o Fmt(schema_name) \o s_dot \o Fmt(table_name)
    ELSE IF Truthy(schema_name)
         THEN Fmt(schema_name) \o s_dot \o Fmt(table_name)
         ELSE table_name

\* A builder that folds the whole identifier, platform included.
_build_dataset_urn_LowerAll(self, data_source_name, database_name, schema_name, table_name, platform_instance) ==
    IF ~Truthy(self.platform_alias) /\ ~IsStr(data_source_name)
    THEN Raised("AttributeError")
    ELSE
    LET platform == IF Truthy(self.platform_alias)
                    THEN self.platform_alias
                    ELSE Lower(data_source_name)
        composed == dataset_name_of(database_name, schema_name, table_name)
    IN  IF self.convert_urns_to_lowercase /\ ~IsStr(composed)
        THEN Raised("AttributeError")
        ELSE
        LET built == make_dataset_urn_with_platform_instance(
                         IF self.convert_urns_to_lowercase THEN Lower(platform)
                         ELSE platform,
                         IF self.convert_urns_to_lowercase THEN Lower(composed)
                         ELSE composed,
                         IF Truthy(platform_instance) THEN platform_instance ELSE <<>>,
                         self.env)
        IN  IF built.raised THEN Returned(NoneUrn) ELSE Returned(built.value)

\* DataHubSodaHandler._build_dataset_urn.  Lines 267-280 run outside the
\* try block: an exception there leaves the function; one raised by the
\* library call of lines 282-288 is caught and gives None.
_build_dataset_urn(self, data_source_name, database_name, schema_name, table_name, platform_instance) ==
    IF ~Truthy(self.platform_alias) /\ ~IsStr(data_source_name)
    THEN Raised("AttributeError")                      \* data_source_name.lower()
    ELSE
    LET platform == IF Truthy(self.platform_alias)
                    THEN self.platform_alias
                    ELSE IF Lower(data_source_name) \in platform_map
                         THEN Lower(data_source_name)       \* every key maps to itself
                         ELSE Lower(data_source_name)
        composed == dataset_name_of(database_name, schema_name, table_name)
    IN  IF self.convert_urns_to_lowercase /\ ~IsStr(composed)
        THEN Raised("AttributeError")                  \* dataset_name.lower()
        ELSE
        LET dataset_name == IF self.convert_urns_to_lowercase
                            THEN Lower(composed) ELSE composed
            built == make_dataset_urn_with_platform_instance(
                         platform, dataset_name,
                         IF Truthy(platform_instance) THEN platform_instance ELSE <<>>,
                         self.env)
        IN  IF built.raised THEN Returned(NoneUrn) ELSE Returned(built.value)

\* dict.get on the handler's platform_instance_map, a set of <<key, value>>
\* pairs with one value per key.
platform_instance_of(map, data_source_name) ==
    IF \E p \in map.items : p[1] = data_source_name
    THEN (CHOOSE p \in map.items : p[1] = data_source_name)[2]
    ELSE None

\* ------------------------------------------------------------ check mapper
\* A metric value as json.load gives it: an int ("int", n), a str ("str", s),
\* None ("none"), a finite float ("float", held in tenths: n = 37 is 3.7),
\* the float inf that a literal such as 1e999 is read as ("inf"), a bool
\* ("bool", n = 1 for True) or a list ("list").
IntValue(n) == [t |-> "int", n |-> n, s |-> <<>>]
StrValue(s) == [t |-> "str", n |-> 0, s |-> s]
NoneValue == [t |-> "none", n |-> 0, s |-> <<>>]
FloatValue(tenths) == [t |-> "float", n |-> tenths, s |-> <<>>]
InfValue == [t |-> "inf", n |-> 0, s |-> <<>>]
BoolValue(b) == [t |-> "bool", n |-> IF b THEN 1 ELSE 0, s |-> <<>>]
ListValue == [t |-> "list", n |-> 0, s |-> <<>>]

Digits == <<"0","1","2","3","4","5","6","7","8","9">>
IsDigit(c) == \E i \in DOMAIN Digits : Digits[i] = c
DigitVal(c) == (CHOOSE i \in DOMAIN Digits : Digits[i] = c) - 1

RECURSIVE DigitsToInt(_)
DigitsToInt(s) ==
    IF s = <<>> THEN 0
    ELSE 10 * DigitsToInt(SubSeq(s, 1, Len(s) - 1)) + DigitVal(s[Len(s)])

\* str.strip() of blanks, which int() applies to a str argument.
RECURSIVE Strip(_)
Strip(s) ==
    IF s = <<>> THEN s
    ELSE IF Head(s) = " " THEN Strip(Tail(s))
    ELSE IF s[Len(s)] = " " THEN Strip(SubSeq(s, 1, Len(s) - 1))
    ELSE s

\* int(value) accepts a str of decimal digits with an optional sign, blanks
\* around it ignored.
IsIntLiteral(s) ==
    LET t == Strip(s)
        body == IF t # <<>> /\ t[1] \in {"-", "+"} THEN Tail(t) ELSE t
    IN  body # <<>> /\ \A i \in DOMAIN body : IsDigit(body[i])

\* int() of a finite float held in tenths: truncation toward zero.
TruncTenths(n) == IF n >= 0 THEN n \div 10 ELSE 0 - ((0 - n) \div 10)

\* parse_int_or_default(value) with the default default_value = None: what
\* it returns, or the exception that leaves it.  The except clause of line
\* 553 catches ValueError and TypeError; int(inf) raises OverflowError.
parse_int_or_default(value) ==
    CASE value.t = "none" -> Returned(NoInt)
      [] value.t = "int" -> Returned(SomeInt(value.n))
      [] value.t = "bool" -> Returned(SomeInt(value.n))
      [] value.t = "float" -> Returned(SomeInt(TruncTenths(value.n)))
      [] value.t = "inf" -> Raised("OverflowError")
      [] value.t = "str" ->
            IF IsIntLiteral(value.s)
            THEN LET t == Strip(value.s)
                 IN  IF t[1] = "-" THEN Returned(SomeInt(0 - DigitsToInt(Tail(t))))
                     ELSE IF t[1] = "+" THEN Returned(SomeInt(DigitsToInt(Tail(t))))
                     ELSE Returned(SomeInt(DigitsToInt(t)))
            ELSE Returned(NoInt)                    \* ValueError, caught
      [] OTHER -> Returned(NoInt)                   \* TypeError, caught

m_row_count == <<"r","o","w","_","c","o","u","n","t">>
m_missing_count == <<"m","i","s","s","i","n","g","_","c","o","u","n","t">>
m_unexpected_count == <<"u","n","e","x","p","e","c","t","e","d","_","c","o","u","n","t">>
AggregationIds ==
    { <<"m","i","n">>, <<"m","a","x">>, <<"a","v","g">>, <<"s","u","m">>,
      <<"c","o","u","n","t">> }

\* The four values the metric loop of lines 329-345 fills.
NoMetrics ==
    [raised |-> FALSE, row_count |-> NoInt, missing_count |-> NoInt,
     unexpected_count |-> NoInt, actual_agg_value |-> NoInt]

\* isinstance(metric_value, (int, float)): a bool is an int.
IsNumber(value) == value.t \in {"int", "float", "inf", "bool"}

\* An actual_agg_value that is set: the metric value itself.
SomeNumber(value) == [some |-> TRUE, n |-> value.n, t |-> value.t]

\* One iteration of the loop of lines 334-345 on the values so far; an
\* exception that leaves parse_int_or_default leaves the loop.
metric_step(acc, metric) ==
    IF acc.raised THEN acc
    ELSE IF metric.json # "object" THEN [acc EXCEPT !.raised = TRUE]   \* metric.get
    ELSE
    LET metric_id == Get(metric.id, <<>>)
        metric_value == metric.value
        parsed == parse_int_or_default(metric_value)
    IN  IF metric_id = m_row_count
        THEN IF parsed.raised THEN [acc EXCEPT !.raised = TRUE]
             ELSE [acc EXCEPT !.row_count = parsed.value]
        ELSE IF metric_id = m_missing_count
        THEN IF parsed.raised THEN [acc EXCEPT !.raised = TRUE]
             ELSE [acc EXCEPT !.missing_count = parsed.value]
        ELSE IF metric_id = m_unexpected_count
        THEN IF parsed.raised THEN [acc EXCEPT !.raised = TRUE]
             ELSE [acc EXCEPT !.unexpected_count = parsed.value]
        ELSE IF metric_id \in AggregationIds /\ IsNumber(metric_value)
        THEN [acc EXCEPT !.actual_agg_value = SomeNumber(metric_value)]
        ELSE acc

RECURSIVE metric_loop(_, _)
metric_loop(acc, metrics) ==
    IF metrics = <<>> THEN acc
    ELSE metric_loop(metric_step(acc, Head(metrics)), Tail(metrics))

\* The metrics of a check: check.get("metrics", []) is a list, None (a JSON
\* null, which the for loop cannot iterate) or absent.
extract_metrics(metrics) ==
    CASE metrics.kind = "missing" -> NoMetrics
      [] metrics.kind = "none" -> [NoMetrics EXCEPT !.raised = TRUE]
      [] OTHER -> metric_loop(NoMetrics, metrics.items)

k_null == <<"n","u","l","l">>
k_missing == <<"m","i","s","s","i","n","g">>
k_unique == <<"u","n","i","q","u","e">>
k_row_count == <<"r","o","w","_","c","o","u","n","t">>
k_count == <<"c","o","u","n","t">>
k_schema == <<"s","c","h","e","m","a">>

\* A rule list that tries the count rule before the unique rule.
classify_CountFirst(check_lower, assertion_fields) ==
    IF Contains(check_lower, k_null) \/ Contains(check_lower, k_missing)
    THEN [scope |-> IF assertion_fields # <<>> THEN "DATASET_COLUMN" ELSE "DATASET_ROWS",
          operator |-> "NOT_NULL", aggregation |-> "IDENTITY"]
    ELSE IF Contains(check_lower, k_row_count) \/ Contains(check_lower, k_count)
    THEN [scope |-> "DATASET_ROWS", operator |-> "_NATIVE_", aggregation |-> "ROW_COUNT"]
    ELSE IF Contains(check_lower, k_unique)
    THEN [scope |-> IF assertion_fields # <<>> THEN "DATASET_COLUMN" ELSE "DATASET_ROWS",
          operator |-> "_NATIVE_", aggregation |-> "UNIQUE_COUNT"]
    ELSE IF Contains(check_lower, k_schema)
    THEN [scope |-> "DATASET_SCHEMA", operator |-> "_NATIVE_", aggregation |-> "COLUMNS"]
    ELSE IF assertion_fields # <<>>
    THEN [scope |-> "DATASET_COLUMN", operator |-> "_NATIVE_", aggregation |-> "_NATIVE_"]
    ELSE [scope |-> "DATASET_ROWS", operator |-> "_NATIVE_", aggregation |-> "_NATIVE_"]

\* A rule list whose count rule is column-scoped when a column is given.
classify_CountByColumn(check_lower, assertion_fields) ==
    IF Contains(check_lower, k_null) \/ Contains(check_lower, k_missing)
    THEN [scope |-> IF assertion_fields # <<>> THEN "DATASET_COLUMN" ELSE "DATASET_ROWS",
          operator |-> "NOT_NULL", aggregation |-> "IDENTITY"]
    ELSE IF Contains(check_lower, k_unique)
    THEN [scope |-> IF assertion_fields # <<>> THEN "DATASET_COLUMN" ELSE "DATASET_ROWS",
          operator |-> "_NATIVE_", aggregation |-> "UNIQUE_COUNT"]
    ELSE IF Contains(check_lower, k_row_count) \/ Contains(check_lower, k_count)
    THEN [scope |-> IF assertion_fields # <<>> THEN "DATASET_COLUMN" ELSE "DATASET_ROWS",
          operator |-> "_NATIVE_", aggregation |-> "ROW_COUNT"]
    ELSE IF Contains(check_lower, k_schema)
    THEN [scope |-> "DATASET_SCHEMA", operator |-> "_NATIVE_", aggregation |-> "COLUMNS"]
    ELSE IF assertion_fields # <<>>
    THEN [scope |-> "DATASET_COLUMN", operator |-> "_NATIVE_", aggregation |-> "_NATIVE_"]
    ELSE [scope |-> "DATASET_ROWS", operator |-> "_NATIVE_", aggregation |-> "_NATIVE_"]

\* The scope, operator and aggregation chosen at lines 441-474.
classify(check_lower, assertion_fields) ==
    IF Contains(check_lower, k_null) \/ Contains(check_lower, k_missing)
    THEN [scope |-> IF assertion_fields # <<>> THEN "DATASET_COLUMN" ELSE "DATASET_ROWS",
          operator |-> "NOT_NULL", aggregation |-> "IDENTITY"]
    ELSE IF Contains(check_lower, k_unique)
    THEN [scope |-> IF assertion_fields # <<>> THEN "DATASET_COLUMN" ELSE "DATASET_ROWS",
          operator |-> "_NATIVE_", aggregation |-> "UNIQUE_COUNT"]
    ELSE IF Contains(check_lower, k_row_count) \/ Contains(check_lower, k_count)
    THEN [scope |-> "DATASET_ROWS", operator |-> "_NATIVE_", aggregation |-> "ROW_COUNT"]
    ELSE IF Contains(check_lower, k_schema)
    THEN [scope |-> "DATASET_SCHEMA", operator |-> "_NATIVE_", aggregation |-> "COLUMNS"]
    ELSE IF assertion_fields # <<>>
    THEN [scope |-> "DATASET_COLUMN", operator |-> "_NATIVE_", aggregation |-> "_NATIVE_"]
    ELSE [scope |-> "DATASET_ROWS", operator |-> "_NATIVE_", aggregation |-> "_NATIVE_"]

\* DataHubSodaHandler._build_assertion_info.  assertion_fields is the list
\* of field URNs, <<>> standing for None (the code never builds an empty list).
_build_assertion_info(check_type, definition, dataset_urn, assertion_fields, check_name) ==
    IF ~IsStr(check_type)
    THEN Raised("AttributeError")                      \* check_type.lower()
    ELSE
    LET c == classify(Lower(check_type), assertion_fields)
    IN  Returned([isNone |-> FALSE, type |-> "DATASET", dataset |-> dataset_urn,
                  fields |-> assertion_fields, operator |-> c.operator,
                  aggregation |-> c.aggregation, nativeType |-> check_type,
                  definition |-> definition, scope |-> c.scope,
                  check_name |-> check_name])

SuccessOutcomes == { s_pass, <<"p","a","s","s","e","d">>, s_success }

\* A result type that compares the outcome without lower-casing it.
result_type_of_CaseSensitive(outcome) ==
    IF outcome \in SuccessOutcomes THEN "SUCCESS" ELSE "FAILURE"

\* The result type of lines 321-326, for a str outcome.
result_type_of(outcome) ==
    IF Lower(outcome) \in SuccessOutcomes THEN "SUCCESS" ELSE "FAILURE"

\* An assertion URN hashed from a tuple that leaves the check name out.
make_assertion_urn_NoCheckName(check_type, definition, dataset_urn, assertion_fields, check_name) ==
    [platform |-> SODA_PLATFORM_NAME, nativeType |-> check_type,
     definition |-> definition, dataset |-> dataset_urn,
     fields |-> assertion_fields, checkName |-> <<>>]

\* builder.make_assertion_urn(builder.datahub_guid(...)) of lines 354-367: the
\* hash of the canonical tuple, kept as the tuple itself.
make_assertion_urn(check_type, definition, dataset_urn, assertion_fields, check_name) ==
    [platform |-> SODA_PLATFORM_NAME, nativeType |-> check_type,
     definition |-> definition, dataset |-> dataset_urn,
     fields |-> assertion_fields, checkName |-> check_name]

\* The keys of nativeResults (lines 401-406): every key of the check other
\* than name, type, definition and outcome whose value is not None.
native_result_keys(check) ==
    {k \in {"table", "schema", "column"} : check[k] # Missing /\ check[k] # None}
        \cup (IF check.metrics.kind = "list" THEN {"metrics"} ELSE {})

\* The (None, None) of line 416.
NonePair == [info |-> [isNone |-> TRUE], result |-> [isNone |-> TRUE]]

\* A mapper that hands back the assertion info alone when the metrics of the
\* check cannot be read.
_convert_check_to_assertion_InfoOnly(check, dataset_urn, scan_id) ==
    IF check.json # "object" \/ ~IsStr(Get(check.outcome, s_unknown))
    THEN NonePair
    ELSE LET info == _build_assertion_info(Get(check.type, s_unknown),
                                           Get(check.definition, <<>>),
                                           dataset_urn, <<>>,
                                           Get(check.name, s_unknown_check))
         IN  IF info.raised THEN NonePair
             ELSE [info |-> info.value, result |-> [isNone |-> TRUE]]

\* DataHubSodaHandler._convert_check_to_assertion: the pair
\* (assertion_info, assertion_result), or (None, None) when anything in the
\* try block of lines 312-412 raised.  The wall-clock timestampMillis and
\* the runId formatted from scan_timestamp are left out of the result.
_convert_check_to_assertion(check, dataset_urn, scan_id) ==
    IF check.json # "object" THEN NonePair             \* check.get
    ELSE
    LET check_name == Get(check.name, s_unknown_check)
        check_type == Get(check.type, s_unknown)
        definition == Get(check.definition, <<>>)
        outcome == Get(check.outcome, s_unknown)
        column_name == Get(check.column, None)
    IN  IF ~IsStr(outcome) THEN NonePair               \* outcome.lower()
        ELSE
        LET result_type == result_type_of(outcome)
            m == extract_metrics(check.metrics)
        IN  IF m.raised THEN NonePair
            ELSE
            LET assertion_fields ==
                    IF Truthy(column_name)
                    THEN << [dataset |-> dataset_urn, field |-> column_name] >>
                    ELSE <<>>
                assertion_urn == make_assertion_urn(check_type, definition, dataset_urn,
                                                    assertion_fields, check_name)
                info == _build_assertion_info(check_type, definition, dataset_urn,
                                              assertion_fields, check_name)
            IN  IF info.raised THEN NonePair
                ELSE [info |-> info.value,
                      result |->
                        [isNone |-> FALSE, assertionUrn |-> assertion_urn,
                         asserteeUrn |-> dataset_urn, type |-> result_type,
                         rowCount |-> m.row_count, missingCount |-> m.missing_count,
                         unexpectedCount |-> m.unexpected_count,
                         actualAggValue |-> m.actual_agg_value,
                         nativeResults |-> native_result_keys(check),
                         nativeBatchId |-> scan_id,
                         query |-> IF Truthy(definition) THEN definition ELSE <<>>,
                         status |-> "COMPLETE"]]

\* ------------------------------------------------------------------ state
VARIABLES
    handler,           \* the DataHubSodaHandler (self): its configuration fields
    scan_result,       \* the scan_result argument of process_scan_result
    pc,                \* where process_scan_result is
    scan_id,           \* local: scan_id
    data_source_name,  \* local: data_source_name
    checks,            \* local: checks (the list)
    tables,            \* local: tables (the list, or None)
    ti,                \* position of table_info in tables (the outer for loop)
    dataset_urn,       \* local: dataset_urn
    table_checks,      \* local: table_checks, as positions in checks
    ci,                \* position of check in table_checks (the inner for loop)
    assertion,         \* local: (assertion_info, assertion_result)
    assertions_sent,   \* local: assertions_sent
    emit_calls,        \* every emitter.emit_mcp call made, in order
    emit_returned,     \* how many of these calls have returned
    result,            \* what process_scan_result returned
    exception,         \* the exception process_scan_result raised to its caller
    thrown,            \* the exception raised inside the try block, if any
    cli_pc,            \* where cli.main is
    map_file,          \* the --platform-instance-map file
    scan_file,         \* the --scan-result file
    exit_code,         \* the code cli.main exited with
    gov_pc,            \* where validate_governance_policies is
    gov_dataset_urn,   \* its dataset_urn argument
    policies,          \* its policies argument
    gi,                \* position of policy in policies (the for loop)
    validation_results, \* its local validation_results, which it returns
    call_no,           \* which call of process_scan_result on this handler runs
    first_call         \* what the first call emitted and how it ended

procVars ==
    << handler, scan_result, pc, scan_id, data_source_name, checks, tables, ti,
       dataset_urn, table_checks, ci, assertion, assertions_sent, emit_calls,
       emit_returned, result, exception, thrown >>
cliVars == << cli_pc, map_file, scan_file, exit_code >>
govVars == << gov_pc, gov_dataset_urn, policies, gi, validation_results >>
callVars == << call_no, first_call >>
vars == << procVars, cliVars, govVars, callVars >>

\* The emit calls that have returned, in order.
emitted == SubSeq(emit_calls, 1, emit_returned)

\* A JSON list, None, or an absent key.
List(items) == [kind |-> "list", items |-> items]
NoneList == [kind |-> "none", items |-> <<>>]
MissingList == [kind |-> "missing", items |-> <<>>]

NoResult == [status |-> "none"]

\* ----------------------------------------------------------------- inputs
SeqsUpTo(S, n) == UNION {[1..k -> S] : k \in 0..n}

TableInfo(table, schema, database) ==
    [json |-> "object", tableName |-> table, schemaName |-> schema,
     databaseName |-> database]

\* The tables of the scans explored: db.sc.tb; sc.tb, which has the same
\* (tableName, schemaName); and a table whose names are JSON nulls.
TableInfos ==
    { TableInfo(s_tb, s_sc, s_db),
      TableInfo(s_tb, s_sc, Missing),
      TableInfo(None, None, Missing) }

CheckResult(name, type, outcome, table, schema, column, metrics) ==
    [json |-> "object", name |-> name, type |-> type, definition |-> s_q1,
     outcome |-> outcome, table |-> table, schema |-> schema,
     column |-> column, metrics |-> metrics]

Metric(id, value) == [json |-> "object", id |-> id, value |-> value]

\* The checks of the scans explored in every combination: a passing and a
\* failing check on sc.tb, a check on sc.TB in capitals, and a check whose
\* outcome is a JSON null.
CheckResults ==
    { CheckResult(s_c1, s_null, s_pass, s_tb, s_sc, s_id,
                  List(<< Metric(m_row_count, IntValue(1000)),
                          Metric(m_missing_count, IntValue(0)) >>)),
      CheckResult(s_c2, s_count, s_fail, s_tb, s_sc, s_id,
                  MissingList),
      CheckResult(s_c1, s_count, s_PASS, s_TB, s_sc, Missing,
                  MissingList),
      CheckResult(s_c1, s_null, None, s_tb, s_sc, s_id,
                  MissingList) }

\* A check with no table key, and a check with neither table nor schema key.
CheckNoTable == CheckResult(s_c2, s_count, s_pass, Missing, s_sc, Missing, MissingList)
CheckNoKeys == CheckResult(s_c2, s_count, s_pass, Missing, Missing, Missing, MissingList)

ScanResult(scanId, dataSourceName, tableList, checkList) ==
    [json |-> "object", scanId |-> scanId, dataSourceName |-> dataSourceName,
     tables |-> tableList, checks |-> checkList]

\* Scan results with every list of tables and of checks up to the bounds,
\* scan results with a check that lacks its keys, and scan results that are
\* malformed as a whole.
ScanResults ==
    { ScanResult(s_scan1, s_Spark, List(t), List(c)) :
        t \in SeqsUpTo(TableInfos, MaxTables),
        c \in SeqsUpTo(CheckResults, MaxChecks) }
    \cup
    { ScanResult(s_scan1, s_Spark, List(t), List(c)) :
        t \in { << TableInfo(s_tb, s_sc, s_db) >>,
                << TableInfo(None, None, Missing) >>,
                << TableInfo(s_tb, s_sc, s_db), TableInfo(None, None, Missing) >> },
        c \in { << CheckNoTable >>, << CheckNoKeys >>,
                << CheckNoTable, CheckResult(s_c2, s_count, s_fail, s_tb, s_sc, s_id,
                                             MissingList) >> } }
    \cup
    { [json |-> "other"],
      ScanResult(Missing, Missing, MissingList, MissingList),
      ScanResult(Missing, Missing, List(<< TableInfo(s_tb, s_sc, s_db) >>),
                 NoneList),
      ScanResult(s_scan1, s_Spark, NoneList, List(<< >>)),
      ScanResult(s_scan1, s_Spark, List(<< [json |-> "other"] >>), List(<< >>)),
      ScanResult(s_scan1, s_Spark, List(<< TableInfo(s_tb, s_sc, s_db) >>),
                 List(<< [json |-> "other"] >>)),
      ScanResult(s_scan1, None, List(<< TableInfo(s_tb, s_sc, s_db) >>),
                 List(<< >>)) }

Handler(graceful, lowercase, map) ==
    [env |-> s_PROD, platform_alias |-> None, platform_instance_map |-> map,
     graceful_exceptions |-> graceful, convert_urns_to_lowercase |-> lowercase]

EmptyMap == [json |-> "object", items |-> {}]

Handlers == { Handler(g, l, EmptyMap) : g \in BOOLEAN, l \in BOOLEAN }

\* ---------------------------------------------------- process_scan_result
\* A join that folds case before comparing.
check_matches_CaseFolded(c, table_name, schema_name) ==
    LET fold(v) == IF IsStr(v) THEN Lower(v) ELSE v
    IN  /\ fold(Get(c.table, None)) = fold(table_name)
        /\ fold(Get(c.schema, None)) = fold(schema_name)

\* The join of line 178-179: Python == on what .get returns, an absent key
\* of the check reading as None.
check_matches(c, table_name, schema_name) ==
    Get(c.table, None) = table_name /\ Get(c.schema, None) = schema_name

\* A selection that hands the table's checks over last first.
select_checks_Reversed(all_checks, table_name, schema_name) ==
    IF \E i \in DOMAIN all_checks : all_checks[i].json # "object"
    THEN Raised("AttributeError")
    ELSE LET kept == SelectSeq([i \in DOMAIN all_checks |-> i],
                               LAMBDA i : check_matches(all_checks[i], table_name,
                                                        schema_name))
         IN  Returned([k \in DOMAIN kept |-> kept[Len(kept) + 1 - k]])

\* The list comprehension of lines 175-180, as the positions in checks of
\* the checks it keeps; c.get raises on an entry that is no JSON object.
select_checks(all_checks, table_name, schema_name) ==
    IF \E i \in DOMAIN all_checks : all_checks[i].json # "object"
    THEN Raised("AttributeError")
    ELSE Returned(SelectSeq([i \in DOMAIN all_checks |-> i],
                            LAMBDA i : check_matches(all_checks[i], table_name,
                                                     schema_name)))

\* The three facts handed to emitter.emit_mcp for one check (lines 192-214),
\* each a MetadataChangeProposalWrapper(entityUrn, aspect).  table and check
\* record the positions, in tables and in checks, the fact was built for.
InfoFact(pair, t, c) ==
    [kind |-> "info", entityUrn |-> pair.result.assertionUrn,
     aspect |-> pair.info, table |-> t, check |-> c]
PlatformFact(pair, t, c) ==
    [kind |-> "platform", entityUrn |-> pair.result.assertionUrn,
     aspect |-> [platform |-> SODA_PLATFORM_NAME], table |-> t, check |-> c]
ResultFact(pair, t, c) ==
    [kind |-> "result", entityUrn |-> pair.result.assertionUrn,
     aspect |-> pair.result, table |-> t, check |-> c]

\* `if assertion_info and assertion_result` (line 190).
IsMapped(pair) == ~pair.info.isNone /\ ~pair.result.isNone

\* An except clause that never re-raises.
Except_AlwaysGraceful(e) ==
    /\ result' = [status |-> "error", error |-> e]
    /\ exception' = "none"
    /\ pc' = "returned"

\* The except clause of lines 225-231.
Except(e) ==
    IF handler.graceful_exceptions
    THEN /\ result' = [status |-> "error", error |-> e]
         /\ exception' = "none"
         /\ pc' = "returned"
    ELSE /\ result' = result
         /\ exception' = e
         /\ pc' = "raised"

\* An exception e is raised inside the try block of lines 122-223.
Throw(e) ==
    /\ thrown' = e
    /\ Except(e)

NoException ==
    /\ result' = result
    /\ exception' = exception
    /\ thrown' = thrown

\* Lines 123-133: the emitter is constructed, or its constructor raises.
ConstructEmitter ==
    /\ pc = "start"
    /\ \E ok \in BOOLEAN :
         IF ok THEN pc' = "read" /\ NoException
         ELSE Throw("EmitterError")
    /\ UNCHANGED << handler, scan_result, scan_id, data_source_name, checks, tables,
                    ti, dataset_urn, table_checks, ci, assertion, assertions_sent,
                    emit_calls, emit_returned, cliVars, govVars, callVars >>

\* A read that takes the checks out of the scan result (dict.pop).
ReadScanResult_PopsChecks ==
    /\ pc = "read"
    /\ IF scan_result.json # "object"
       THEN /\ Throw("AttributeError")
            /\ UNCHANGED << scan_result, scan_id, data_source_name, checks, tables,
                            ti, assertions_sent >>
       ELSE IF scan_result.checks.kind = "none"
       THEN /\ Throw("TypeError")
            /\ scan_id' = Get(scan_result.scanId, s_scan_now)
            /\ data_source_name' = Get(scan_result.dataSourceName, s_unknown)
            /\ UNCHANGED << scan_result, checks, tables, ti, assertions_sent >>
       ELSE /\ scan_id' = Get(scan_result.scanId, s_scan_now)
            /\ data_source_name' = Get(scan_result.dataSourceName, s_unknown)
            /\ checks' = scan_result.checks.items
            /\ scan_result' = [scan_result EXCEPT !.checks = MissingList]
            /\ tables' = scan_result.tables
            /\ assertions_sent' = 0
            /\ ti' = 1
            /\ pc' = "tables"
            /\ NoException
    /\ UNCHANGED << handler, dataset_urn, table_checks, ci, assertion,
                    emit_calls, emit_returned, cliVars, govVars, callVars >>

\* Lines 136-146: scan_id, data_source_name, checks and tables are read from
\* the scan result; .get raises on a scan result that is no JSON object and
\* len(checks) on a checks that is None.
ReadScanResult ==
    /\ pc = "read"
    /\ IF scan_result.json # "object"
       THEN /\ Throw("AttributeError")
            /\ UNCHANGED << scan_id, data_source_name, checks, tables, ti,
                            assertions_sent >>
       ELSE IF scan_result.checks.kind = "none"
       THEN /\ Throw("TypeError")
            /\ scan_id' = Get(scan_result.scanId, s_scan_now)
            /\ data_source_name' = Get(scan_result.dataSourceName, s_unknown)
            /\ UNCHANGED << checks, tables, ti, assertions_sent >>
       ELSE /\ scan_id' = Get(scan_result.scanId, s_scan_now)
            /\ data_source_name' = Get(scan_result.dataSourceName, s_unknown)
            /\ checks' = scan_result.checks.items
            /\ tables' = scan_result.tables
            /\ assertions_sent' = 0
            /\ ti' = 1
            /\ pc' = "tables"
            /\ NoException
    /\ UNCHANGED << handler, scan_result, dataset_urn, table_checks, ci, assertion,
                    emit_calls, emit_returned, cliVars, govVars, callVars >>

\* Lines 147-180, one iteration of `for table_info in tables` up to the
\* inner loop: the names are read, the dataset URN is built and the table's
\* checks are selected.  A table whose URN is None is skipped.
NextTable ==
    /\ pc = "tables"
    /\ tables.kind = "none" \/ ti <= Len(tables.items)
    /\ IF tables.kind = "none"
       THEN /\ Throw("TypeError")                     \* for ... in None
            /\ UNCHANGED << ti, dataset_urn, table_checks, ci >>
       ELSE
       LET table_info == tables.items[ti]
       IN  IF table_info.json # "object"
           THEN /\ Throw("AttributeError")            \* table_info.get
                /\ UNCHANGED << ti, dataset_urn, table_checks, ci >>
           ELSE
           LET table_name == Get(table_info.tableName, <<>>)
               schema_name == Get(table_info.schemaName, <<>>)
               database_name == Get(table_info.databaseName, <<>>)
           IN  IF handler.platform_instance_map.json # "object"
               THEN /\ Throw("AttributeError")        \* platform_instance_map.get
                    /\ UNCHANGED << ti, dataset_urn, table_checks, ci >>
               ELSE
               LET platform_instance ==
                       platform_instance_of(handler.platform_instance_map,
                                            data_source_name)
                   urn == _build_dataset_urn(handler, data_source_name, database_name,
                                             schema_name, table_name, platform_instance)
               IN  IF urn.raised
                   THEN /\ Throw(urn.error)
                        /\ UNCHANGED << ti, dataset_urn, table_checks, ci >>
                   ELSE IF urn.value.isNone
                   THEN /\ ti' = ti + 1                \* continue
                        /\ dataset_urn' = urn.value
                        /\ UNCHANGED << pc, table_checks, ci >>
                        /\ NoException
                   ELSE
                   LET selected == select_checks(checks, table_name, schema_name)
                   IN  IF selected.raised
                       THEN /\ Throw(selected.error)
                            /\ dataset_urn' = urn.value
                            /\ UNCHANGED << ti, table_checks, ci >>
                       ELSE /\ dataset_urn' = urn.value
                            /\ table_checks' = selected.value
                            /\ ci' = 1
                            /\ pc' = "checks"
                            /\ UNCHANGED ti
                            /\ NoException
    /\ UNCHANGED << handler, scan_result, scan_id, data_source_name, checks, tables,
                    assertion, assertions_sent, emit_calls, emit_returned, cliVars, govVars, callVars >>

\* Lines 182-190, one iteration of `for check in table_checks` up to the
\* emits: the check is mapped; a check mapped to (None, None) is passed over.
ConvertCheck ==
    /\ pc = "checks"
    /\ ci <= Len(table_checks)
    /\ LET pair == _convert_check_to_assertion(checks[table_checks[ci]],
                                               dataset_urn, scan_id)
       IN  /\ assertion' = pair
           /\ IF IsMapped(pair)
              THEN pc' = "emit_info" /\ UNCHANGED ci
              ELSE ci' = ci + 1 /\ UNCHANGED pc
    /\ UNCHANGED << handler, scan_result, scan_id, data_source_name, checks, tables,
                    ti, dataset_urn, table_checks, assertions_sent, emit_calls,
                    emit_returned, result, exception, thrown, cliVars, govVars, callVars >>

\* An emit whose failure is retried: the same call is made again.
Emit_Retry(fact, next_pc) ==
    /\ emit_calls' = Append(emit_calls, fact)
    /\ \E ok \in BOOLEAN :
         IF ok
         THEN /\ emit_returned' = emit_returned + 1
              /\ pc' = next_pc
         ELSE /\ emit_returned' = emit_returned
              /\ pc' = pc
    /\ Len(emit_calls) < 3 * MaxTables * MaxChecks + 2
    /\ result' = result
    /\ exception' = exception
    /\ thrown' = thrown

\* emitter.emit_mcp(mcp): the call is made; it returns, or it raises and the
\* exception leaves the loops for the except clause.
Emit(fact, next_pc) ==
    /\ emit_calls' = Append(emit_calls, fact)
    /\ \E ok \in BOOLEAN :
         IF ok
         THEN /\ emit_returned' = emit_returned + 1
              /\ pc' = next_pc
              /\ NoException
         ELSE /\ emit_returned' = emit_returned
              /\ Throw("EmitError")

\* The assertion result emitted where the assertion info should be.
EmitInfo_ResultFirst ==
    /\ pc = "emit_info"
    /\ emit_calls' = Append(emit_calls, ResultFact(assertion, ti, table_checks[ci]))
    /\ emit_returned' = emit_returned + 1
    /\ pc' = "emit_platform"
    /\ UNCHANGED << handler, scan_result, scan_id, data_source_name, checks, tables,
                    ti, dataset_urn, table_checks, ci, assertion, assertions_sent,
                    result, exception, thrown, cliVars, govVars, callVars >>

\* Lines 191-196: the assertion info is emitted.
EmitInfo ==
    /\ pc = "emit_info"
    /\ Emit(InfoFact(assertion, ti, table_checks[ci]), "emit_platform")
    /\ UNCHANGED << handler, scan_result, scan_id, data_source_name, checks, tables,
                    ti, dataset_urn, table_checks, ci, assertion, assertions_sent,
                    cliVars, govVars, callVars >>

\* Lines 198-207: the platform instance is emitted.
EmitPlatform ==
    /\ pc = "emit_platform"
    /\ Emit(PlatformFact(assertion, ti, table_checks[ci]), "emit_result")
    /\ UNCHANGED << handler, scan_result, scan_id, data_source_name, checks, tables,
                    ti, dataset_urn, table_checks, ci, assertion, assertions_sent,
                    cliVars, govVars, callVars >>

\* The counter incremented before the third emit is known to have returned.
EmitResult_CountsFirst ==
    /\ pc = "emit_result"
    /\ assertions_sent' = assertions_sent + 1
    /\ emit_calls' = Append(emit_calls, ResultFact(assertion, ti, table_checks[ci]))
    /\ \E ok \in BOOLEAN :
         IF ok
         THEN /\ emit_returned' = emit_returned + 1
              /\ pc' = "checks"
              /\ ci' = ci + 1
              /\ result' = result
              /\ exception' = exception
              /\ thrown' = thrown
         ELSE /\ emit_returned' = emit_returned
              /\ ci' = ci
              /\ thrown' = "EmitError"
              /\ IF handler.graceful_exceptions
                 THEN /\ result' = [status |-> "error", error |-> "EmitError"]
                      /\ exception' = "none"
                      /\ pc' = "returned"
                 ELSE /\ result' = result
                      /\ exception' = "EmitError"
                      /\ pc' = "raised"
    /\ UNCHANGED << handler, scan_result, scan_id, data_source_name, checks, tables,
                    ti, dataset_urn, table_checks, assertion, cliVars, govVars, callVars >>

\* Lines 209-216: the assertion result is emitted and, once the call has
\* returned, assertions_sent is incremented and the inner loop moves on.
EmitResult ==
    /\ pc = "emit_result"
    /\ Emit(ResultFact(assertion, ti, table_checks[ci]), "checks")
    /\ IF pc' = "checks"
       THEN assertions_sent' = assertions_sent + 1 /\ ci' = ci + 1
       ELSE UNCHANGED << assertions_sent, ci >>
    /\ UNCHANGED << handler, scan_result, scan_id, data_source_name, checks, tables,
                    ti, dataset_urn, table_checks, assertion, cliVars, govVars, callVars >>

\* The inner loop is exhausted: the outer loop takes the next table.
EndTable ==
    /\ pc = "checks"
    /\ ci > Len(table_checks)
    /\ ti' = ti + 1
    /\ pc' = "tables"
    /\ UNCHANGED << handler, scan_result, scan_id, data_source_name, checks, tables,
                    dataset_urn, table_checks, ci, assertion, assertions_sent,
                    emit_calls, emit_returned, result, exception, thrown, cliVars, govVars, callVars >>

\* A success report that counts the facts emitted, not the checks.
ReturnSuccess_CountsFacts ==
    /\ pc = "tables"
    /\ tables.kind # "none"
    /\ ti > Len(tables.items)
    /\ result' = [status |-> "success", assertions_sent |-> Len(emit_calls),
                  scan_id |-> scan_id]
    /\ pc' = "returned"
    /\ UNCHANGED << handler, scan_result, scan_id, data_source_name, checks, tables,
                    ti, dataset_urn, table_checks, ci, assertion, assertions_sent,
                    emit_calls, emit_returned, exception, thrown, cliVars, govVars, callVars >>

\* Lines 218-223: the outer loop is exhausted and the call returns success.
ReturnSuccess ==
    /\ pc = "tables"
    /\ tables.kind # "none"
    /\ ti > Len(tables.items)
    /\ result' = [status |-> "success", assertions_sent |-> assertions_sent,
                  scan_id |-> scan_id]
    /\ pc' = "returned"
    /\ UNCHANGED << handler, scan_result, scan_id, data_source_name, checks, tables,
                    ti, dataset_urn, table_checks, ci, assertion, assertions_sent,
                    emit_calls, emit_returned, exception, thrown, cliVars, govVars, callVars >>

ProcessNext ==
    \/ ConstructEmitter
    \/ ReadScanResult
    \/ NextTable
    \/ ConvertCheck
    \/ EmitInfo
    \/ EmitPlatform
    \/ EmitResult
    \/ EndTable
    \/ ReturnSuccess

\* The locals of a call that has not started.
ProcessEntry ==
    /\ scan_id = <<>>
    /\ data_source_name = <<>>
    /\ checks = <<>>
    /\ tables = List(<<>>)
    /\ ti = 0
    /\ dataset_urn = NoneUrn
    /\ table_checks = <<>>
    /\ ci = 0
    /\ assertion = NonePair
    /\ assertions_sent = 0
    /\ emit_calls = <<>>
    /\ emit_returned = 0
    /\ result = NoResult
    /\ exception = "none"
    /\ thrown = "none"

NoFile == [readable |-> FALSE]

\* cli.main is not running.
CliOff ==
    /\ cli_pc = "off"
    /\ map_file = "absent"
    /\ scan_file = NoFile
    /\ exit_code = -1

\* No call of process_scan_result on the handler has ended yet.
NoCall == [emit_calls |-> <<>>, result |-> NoResult, exception |-> "none"]

FirstCall ==
    /\ call_no = 1
    /\ first_call = NoCall

\* validate_governance_policies is not running.
GovOff ==
    /\ gov_pc = "off"
    /\ gov_dataset_urn = NoneUrn
    /\ policies = List(<<>>)
    /\ gi = 0
    /\ validation_results = NoResult

\* A handler constructed by its caller, and process_scan_result called on a
\* scan result.
Init ==
    /\ handler \in Handlers
    /\ scan_result \in ScanResults
    /\ pc = "start"
    /\ ProcessEntry
    /\ CliOff
    /\ GovOff
    /\ FirstCall

Next == ProcessNext

Spec == Init /\ [][Next]_vars

\* ------------------------------------- process_scan_result called twice
\* The caller calls process_scan_result again, on the same handler and the
\* same scan result, after the first call has returned or raised: the
\* locals of the new call start afresh (lines 104-121).
CallAgain ==
    /\ call_no = 1
    /\ pc \in {"returned", "raised"}
    /\ call_no' = 2
    /\ first_call' = [emit_calls |-> emit_calls, result |-> result,
                      exception |-> exception]
    /\ pc' = "start"
    /\ scan_id' = <<>>
    /\ data_source_name' = <<>>
    /\ checks' = <<>>
    /\ tables' = List(<<>>)
    /\ ti' = 0
    /\ dataset_urn' = NoneUrn
    /\ table_checks' = <<>>
    /\ ci' = 0
    /\ assertion' = NonePair
    /\ assertions_sent' = 0
    /\ emit_calls' = <<>>
    /\ emit_returned' = 0
    /\ result' = NoResult
    /\ exception' = "none"
    /\ thrown' = "none"
    /\ UNCHANGED << handler, scan_result, cliVars, govVars >>

\* Scan results for the two calls: one or two tables with one or two
\* checks with and without metrics, a scan result with an entry that is no
\* JSON object, and scan results that are malformed as a whole.
TwiceScans ==
    { ScanResult(s_scan1, s_Spark, List(t), List(c)) :
        t \in { << TableInfo(s_tb, s_sc, s_db) >>,
                << TableInfo(s_tb, s_sc, s_db), TableInfo(s_tb, s_sc, Missing) >>,
                << TableInfo(None, None, Missing), TableInfo(s_tb, s_sc, s_db) >> },
        c \in { << CheckResult(s_c1, s_null, s_pass, s_tb, s_sc, s_id,
                               List(<< Metric(m_row_count, IntValue(1000)),
                                       Metric(m_missing_count, IntValue(0)) >>)) >>,
                << CheckResult(s_c1, s_null, s_pass, s_tb, s_sc, s_id,
                               List(<< Metric(m_row_count, IntValue(1000)) >>)),
                   CheckResult(s_c2, s_count, s_fail, s_tb, s_sc, s_id, MissingList) >>,
                << CheckResult(s_c1, s_count, s_PASS, s_TB, s_sc, Missing, MissingList),
                   CheckResult(s_c1, s_null, None, s_tb, s_sc, s_id, MissingList) >>,
                << [json |-> "other"] >> } }
    \cup
    { [json |-> "other"],
      ScanResult(Missing, Missing, MissingList, MissingList),
      ScanResult(s_scan1, s_Spark, NoneList, List(<< >>)) }

InitTwice ==
    /\ handler \in Handlers
    /\ scan_result \in TwiceScans
    /\ pc = "start"
    /\ ProcessEntry
    /\ CliOff
    /\ GovOff
    /\ FirstCall

NextTwice ==
    \/ ProcessNext
    \/ CallAgain

SpecTwice == InitTwice /\ [][NextTwice]_vars

\* ------------------------------------------ _convert_check_to_assertion alone
\* The dataset URN the unit tests pass to the mapper.
TestUrn ==
    [isNone |-> FALSE, platform |-> s_postgres,
     name |-> s_mydb \o s_dot \o s_public \o s_dot \o s_users,
     instance |-> <<>>, env |-> s_PROD]

MapperOutcomes ==
    { s_pass, s_PASS, s_Passed, <<"p","a","s","s","e","d">>, s_success,
      <<"S","u","c","c","e","s","s">>, s_fail, s_passx, s_unknown, <<>>,
      Missing, None }

MapperChecks ==
    { CheckResult(s_c1, type, outcome, s_users, s_public, column, metrics) :
        type \in { s_missing_count, s_row_count, None },
        outcome \in MapperOutcomes,
        column \in { s_id, Missing },
        metrics \in { MissingList, NoneList,
                      List(<< Metric(m_row_count, IntValue(1000)) >>) } }

\* _convert_check_to_assertion called on one check, as the handler's inner
\* loop calls it.
InitMapper ==
    /\ handler \in Handlers
    /\ scan_result = [json |-> "other"]
    /\ pc = "checks"
    /\ scan_id = s_scan1
    /\ data_source_name = s_postgres
    /\ \E c \in MapperChecks : checks = << c >>
    /\ tables = List(<<>>)
    /\ ti = 1
    /\ dataset_urn = TestUrn
    /\ table_checks = << 1 >>
    /\ ci = 1
    /\ assertion = NonePair
    /\ assertions_sent = 0
    /\ emit_calls = <<>>
    /\ emit_returned = 0
    /\ result = NoResult
    /\ exception = "none"
    /\ thrown = "none"
    /\ CliOff
    /\ GovOff
    /\ FirstCall

SpecMapper == InitMapper /\ [][ConvertCheck]_vars

\* ----------------------------------- the mapper on checks with metrics
s_min == <<"m","i","n">>
s_max == <<"m","a","x">>
s_freshness == <<"f","r","e","s","h","n","e","s","s">>

\* The metrics the mapper is run on: the two of the unit test's first check;
\* counts that are a str of digits, a str of letters, null, a float and the
\* float inf; aggregation values; a metric of another id; and an entry that
\* is no JSON object.
Metrics ==
    { Metric(m_row_count, IntValue(1000)),
      Metric(m_missing_count, IntValue(0)),
      Metric(m_unexpected_count, StrValue(<<" ","5"," ">>)),
      Metric(m_row_count, StrValue(<<"a","b","c">>)),
      Metric(m_row_count, NoneValue),
      Metric(m_missing_count, FloatValue(37)),
      Metric(m_unexpected_count, InfValue),
      Metric(s_min, IntValue(1)),
      Metric(s_max, IntValue(9)),
      Metric(s_min, StrValue(<<"1">>)),
      Metric(s_freshness, IntValue(7)),
      Metric(Missing, ListValue),
      [json |-> "other"] }

MetricLists ==
    { List(m) : m \in SeqsUpTo(Metrics, MaxMetrics) } \cup { MissingList, NoneList }

\* Checks that differ in their metrics, and in whether type and outcome are
\* strs; and a check that is no JSON object.
MetricChecks ==
    { CheckResult(s_c1, type, outcome, s_users, s_public, s_id, m) :
        type \in { s_missing_count, None }, outcome \in { s_pass, None },
        m \in MetricLists }
    \cup { [json |-> "other"] }

\* _convert_check_to_assertion called on the one check c.
MapperCalled(c) ==
    /\ handler \in { Handler(TRUE, FALSE, EmptyMap) }
    /\ scan_result = [json |-> "other"]
    /\ pc = "checks"
    /\ scan_id = s_scan1
    /\ data_source_name = s_postgres
    /\ checks = << c >>
    /\ tables = List(<<>>)
    /\ ti = 1
    /\ dataset_urn = TestUrn
    /\ table_checks = << 1 >>
    /\ ci = 1
    /\ assertion = NonePair
    /\ assertions_sent = 0
    /\ emit_calls = <<>>
    /\ emit_returned = 0
    /\ result = NoResult
    /\ exception = "none"
    /\ thrown = "none"
    /\ CliOff
    /\ GovOff
    /\ FirstCall

InitMetrics == \E c \in MetricChecks : MapperCalled(c)

SpecMetrics == InitMetrics /\ [][ConvertCheck]_vars

\* ------------------------------------ the mapper on checks of many types
\* Check types that match one rule, several rules or none, in either case.
CheckTypes ==
    { <<"n","u","l","l">>,
      s_missing_count,
      <<"N","o","t","_","N","u","l","l">>,
      <<"u","n","i","q","u","e">>,
      <<"U","N","I","Q","U","E">>,
      <<"u","n","i","q","u","e","_","c","o","u","n","t">>,
      <<"m","i","s","s","i","n","g","_","u","n","i","q","u","e">>,
      s_row_count,
      <<"d","u","p","l","i","c","a","t","e","_","c","o","u","n","t">>,
      <<"s","c","h","e","m","a">>,
      <<"s","c","h","e","m","a","_","c","o","u","n","t">>,
      s_freshness,
      <<>>,
      Missing }

\* A column that is given, empty, null or absent.
CheckColumns == { s_id, <<>>, None, Missing }

TypedChecks ==
    { CheckResult(s_c1, type, outcome, s_users, s_public, column, MissingList) :
        type \in CheckTypes, outcome \in { s_pass, s_fail }, column \in CheckColumns }

InitClassify == \E c \in TypedChecks : MapperCalled(c)

SpecClassify == InitClassify /\ [][ConvertCheck]_vars

\* ------------------------------------------- two checks mapped and emitted
s_q2 == <<"q","2">>
s_email == <<"e","m","a","i","l">>

\* Checks that differ in name, type, definition and column.
IdChecks ==
    { [CheckResult(name, type, s_pass, s_users, s_public, column, MissingList)
         EXCEPT !.definition = definition] :
        name \in { s_c1, s_c2 }, type \in { s_null, s_count },
        definition \in { s_q1, s_q2, <<>>, Missing },
        column \in { s_id, s_email, <<>>, Missing } }

\* The inner loop of process_scan_result entered on two checks selected for
\* one table.
InitIds ==
    /\ handler \in { Handler(TRUE, FALSE, EmptyMap) }
    /\ scan_result = [json |-> "other"]
    /\ pc = "checks"
    /\ scan_id = s_scan1
    /\ data_source_name = s_postgres
    /\ checks \in [1..2 -> IdChecks]
    /\ tables = List(<< TableInfo(s_users, s_public, s_mydb) >>)
    /\ ti = 1
    /\ dataset_urn = TestUrn
    /\ table_checks = << 1, 2 >>
    /\ ci = 1
    /\ assertion = NonePair
    /\ assertions_sent = 0
    /\ emit_calls = <<>>
    /\ emit_returned = 0
    /\ result = NoResult
    /\ exception = "none"
    /\ thrown = "none"
    /\ CliOff
    /\ GovOff
    /\ FirstCall

NextIds ==
    \/ ConvertCheck
    \/ EmitInfo
    \/ EmitPlatform
    \/ EmitResult

SpecIds == InitIds /\ [][NextIds]_vars

\* ------------------------------------------------ _build_dataset_urn alone
s_Db == <<"D","b">>
s_Sc == <<"S","c">>
s_Tb == <<"T","b">>
s_Pg == <<"P","g">>
s_Dev == <<"D","e","v">>
s_I1 == <<"I","1">>

\* Handlers that differ in platform_alias, env, convert_urns_to_lowercase
\* and platform_instance_map.
UrnHandlers ==
    { [Handler(TRUE, lowercase, map) EXCEPT !.platform_alias = alias, !.env = env] :
        lowercase \in BOOLEAN,
        alias \in { None, s_Pg },
        env \in { s_PROD, s_Dev },
        map \in { EmptyMap, [json |-> "object", items |-> {<< s_postgres, s_I1 >>}] } }

\* One table whose names are each absent, empty or a capitalised name (the
\* table name also a JSON null).
UrnTables ==
    { TableInfo(table, schema, database) :
        table \in { s_Tb, <<>>, Missing, None },
        schema \in { s_Sc, <<>>, Missing },
        database \in { s_Db, <<>>, Missing } }

\* The outer loop of process_scan_result on one table and no checks: the
\* call of _build_dataset_urn at lines 166-172.
InitUrn ==
    /\ handler \in UrnHandlers
    /\ scan_result = [json |-> "other"]
    /\ pc = "tables"
    /\ scan_id = s_scan1
    /\ data_source_name \in { s_postgres, s_Spark }
    /\ checks = <<>>
    /\ \E t \in UrnTables : tables = List(<< t >>)
    /\ ti = 1
    /\ dataset_urn = NoneUrn
    /\ table_checks = <<>>
    /\ ci = 0
    /\ assertion = NonePair
    /\ assertions_sent = 0
    /\ emit_calls = <<>>
    /\ emit_returned = 0
    /\ result = NoResult
    /\ exception = "none"
    /\ thrown = "none"
    /\ CliOff
    /\ GovOff
    /\ FirstCall

SpecUrn == InitUrn /\ [][NextTable]_vars

\* ------------------------------------------- validate_governance_policies
s_dq == <<"d","q">>
s_data_quality == <<"d","a","t","a","_","q","u","a","l","i","t","y">>
s_schema == <<"s","c","h","e","m","a">>

Policy(name, type) == [json |-> "object", name |-> name, type |-> type]

\* The policies of the unit test (names shortened), a policy with neither
\* name nor type, a policy whose name is a JSON null, and an entry that is
\* no JSON object.
Policies ==
    { Policy(s_dq, s_data_quality),
      Policy(s_sc, s_schema),
      Policy(Missing, Missing),
      Policy(None, s_schema),
      [json |-> "other"] }

\* Lines 512-518: validation_results is built; len(policies) raises on a
\* policies that is None.
GovStart ==
    /\ gov_pc = "start"
    /\ IF policies.kind = "none"
       THEN /\ gov_pc' = "raised"
            /\ UNCHANGED << gi, validation_results >>
       ELSE /\ validation_results' =
                 [dataset_urn |-> gov_dataset_urn,
                  policies_validated |-> Len(policies.items),
                  compliant |-> 0, non_compliant |-> 0, details |-> <<>>]
            /\ gi' = 1
            /\ gov_pc' = "loop"
    /\ UNCHANGED << gov_dataset_urn, policies, procVars, cliVars, callVars >>

\* A loop that counts every policy it validates as compliant.
GovPolicy_CountsCompliant ==
    /\ gov_pc = "loop"
    /\ gi <= Len(policies.items)
    /\ LET policy == policies.items[gi]
       IN  IF policy.json # "object"
           THEN gov_pc' = "raised" /\ UNCHANGED << gi, validation_results >>
           ELSE /\ validation_results' =
                     [validation_results EXCEPT
                        !.compliant = @ + 1,
                        !.details = Append(@, [policy |-> Get(policy.name, s_unknown),
                                               type |-> Get(policy.type, s_unknown),
                                               status |-> "validated"])]
                /\ gi' = gi + 1
                /\ UNCHANGED gov_pc
    /\ UNCHANGED << gov_dataset_urn, policies, procVars, cliVars, callVars >>

\* Lines 531-542, one iteration of `for policy in policies`: a detail entry
\* is appended; policy.get raises on an entry that is no JSON object, and
\* nothing catches it.
GovPolicy ==
    /\ gov_pc = "loop"
    /\ gi <= Len(policies.items)
    /\ LET policy == policies.items[gi]
       IN  IF policy.json # "object"
           THEN gov_pc' = "raised" /\ UNCHANGED << gi, validation_results >>
           ELSE /\ validation_results' =
                     [validation_results EXCEPT
                        !.details = Append(@, [policy |-> Get(policy.name, s_unknown),
                                               type |-> Get(policy.type, s_unknown),
                                               status |-> "validated"])]
                /\ gi' = gi + 1
                /\ UNCHANGED gov_pc
    /\ UNCHANGED << gov_dataset_urn, policies, procVars, cliVars, callVars >>

\* Line 544: the loop is exhausted and validation_results is returned.
GovReturn ==
    /\ gov_pc = "loop"
    /\ gi > Len(policies.items)
    /\ gov_pc' = "returned"
    /\ UNCHANGED << gov_dataset_urn, policies, gi, validation_results, procVars,
                    cliVars, callVars >>

\* validate_governance_policies called on a dataset URN (a str, or None)
\* and on policies (a list up to the bound, or None).
InitGov ==
    /\ handler \in { Handler(TRUE, FALSE, EmptyMap) }
    /\ scan_result = [json |-> "other"]
    /\ pc = "off"
    /\ ProcessEntry
    /\ CliOff
    /\ gov_pc = "start"
    /\ gov_dataset_urn \in { TestUrn, NoneUrn }
    /\ policies \in { List(p) : p \in SeqsUpTo(Policies, MaxPolicies) } \cup { NoneList }
    /\ gi = 0
    /\ validation_results = NoResult
    /\ FirstCall

NextGov ==
    \/ GovStart
    \/ GovPolicy
    \/ GovReturn

SpecGov == InitGov /\ [][NextGov]_vars

\* ------------------------------------------------------------------ cli.main
\* The handler before cli.main has constructed it.
NoHandler == [constructed |-> FALSE]

\* The scan results the command line is run on.
CliScanResults ==
    { ScanResult(s_scan1, s_Spark, List(t), List(c)) :
        t \in SeqsUpTo(TableInfos, 1), c \in SeqsUpTo(CheckResults, 1) }
    \cup { [json |-> "other"],
           ScanResult(s_scan1, s_Spark,
                      List(<< TableInfo(s_tb, s_sc, s_db) >>),
                      List(<< [json |-> "other"] >>)) }

\* A platform-instance-map file holding a JSON object.
CliMap == [json |-> "object", items |-> { << s_Spark, <<"p","1">> >> }]

\* Lines 85-93: the platform-instance map is loaded when the flag is given;
\* a file that cannot be opened or parsed ends the process with code 1.
CliLoadMap ==
    /\ cli_pc = "load_map"
    /\ IF map_file = "unreadable"
       THEN cli_pc' = "exit" /\ exit_code' = 1
       ELSE cli_pc' = "load_scan" /\ UNCHANGED exit_code
    /\ UNCHANGED << procVars, map_file, scan_file, govVars, callVars >>

\* Line 96, load_scan_result (lines 21-28): a file that cannot be opened or
\* parsed ends the process with code 1.
CliLoadScan ==
    /\ cli_pc = "load_scan"
    /\ IF ~scan_file.readable
       THEN cli_pc' = "exit" /\ exit_code' = 1
       ELSE cli_pc' = "construct" /\ UNCHANGED exit_code
    /\ UNCHANGED << procVars, map_file, scan_file, govVars, callVars >>

\* A handler constructed with graceful_exceptions=False.
CliConstructHandler_Strict ==
    /\ cli_pc = "construct"
    /\ \E lowercase \in BOOLEAN :
         handler' = Handler(FALSE, lowercase,
                            CASE map_file = "absent" -> EmptyMap
                              [] map_file = "object" -> CliMap
                              [] OTHER -> [json |-> "other"])
    /\ scan_result' = scan_file.content
    /\ pc' = "start"
    /\ cli_pc' = "process"
    /\ UNCHANGED << scan_id, data_source_name, checks, tables, ti, dataset_urn,
                    table_checks, ci, assertion, assertions_sent, emit_calls,
                    emit_returned, result, exception, thrown, map_file, scan_file,
                    exit_code, govVars, callVars >>

\* Lines 99-111: the handler is constructed (graceful_exceptions keeps its
\* default, True; `platform_instance_map or {}`) and process_scan_result is
\* called on the loaded scan result.
CliConstructHandler ==
    /\ cli_pc = "construct"
    /\ \E lowercase \in BOOLEAN :
         handler' = Handler(TRUE, lowercase,
                            CASE map_file = "absent" -> EmptyMap
                              [] map_file = "object" -> CliMap
                              [] OTHER -> [json |-> "other"])
    /\ scan_result' = scan_file.content
    /\ pc' = "start"
    /\ cli_pc' = "process"
    /\ UNCHANGED << scan_id, data_source_name, checks, tables, ti, dataset_urn,
                    table_checks, ci, assertion, assertions_sent, emit_calls,
                    emit_returned, result, exception, thrown, map_file, scan_file,
                    exit_code, govVars, callVars >>

\* Lines 113-121: the exit code follows the status of the result.  An
\* exception that left process_scan_result would leave main unhandled.
CliExit ==
    /\ cli_pc = "process"
    /\ pc \in {"returned", "raised"}
    /\ IF pc = "raised"
       THEN cli_pc' = "crashed" /\ exit_code' = 1
       ELSE /\ cli_pc' = "exit"
            /\ exit_code' = IF result.status = "success" THEN 0 ELSE 1
    /\ UNCHANGED << procVars, map_file, scan_file, govVars, callVars >>

\* cli.main started on a platform-instance-map file (not given, holding a
\* JSON object, unreadable or unparsable, or holding another JSON value) and
\* a scan-result file (unreadable or unparsable, or holding a JSON value).
InitCli ==
    /\ cli_pc = "load_map"
    /\ map_file \in {"absent", "object", "unreadable", "other"}
    /\ scan_file \in {NoFile} \cup
                     {[readable |-> TRUE, content |-> c] : c \in CliScanResults}
    /\ exit_code = -1
    /\ handler = NoHandler
    /\ scan_result = [json |-> "other"]
    /\ pc = "off"
    /\ ProcessEntry
    /\ GovOff
    /\ FirstCall

NextCli ==
    \/ CliLoadMap
    \/ CliLoadScan
    \/ CliConstructHandler
    \/ ProcessNext
    \/ CliExit

SpecCli == InitCli /\ [][NextCli]_vars

\* ============================================================ verification
\* The run of process_scan_result in which no emit fails, read off the scan
\* result and the handler: the reference the claims compare the run with.

IsPrefix(a, b) == Len(a) <= Len(b) /\ SubSeq(b, 1, Len(a)) = a

\* The scan result is a JSON object whose checks are a list.
ScanReadable == scan_result.json = "object" /\ scan_result.checks.kind # "none"

RefTables == scan_result.tables.items
RefChecks == scan_result.checks.items
RefSource == Get(scan_result.dataSourceName, s_unknown)
RefScanId == Get(scan_result.scanId, s_scan_now)

\* The join keys: the table's (tableName, schemaName), absent names reading
\* as "", and the check's (table, schema), absent keys reading as None.
TableKey(t) == << Get(t.tableName, <<>>), Get(t.schemaName, <<>>) >>
CheckKey(c) == << Get(c.table, None), Get(c.schema, None) >>

\* What _build_dataset_urn gives for the table at position t.
RefTableUrn(t) ==
    _build_dataset_urn(handler, RefSource,
                       Get(RefTables[t].databaseName, <<>>),
                       Get(RefTables[t].schemaName, <<>>),
                       Get(RefTables[t].tableName, <<>>),
                       platform_instance_of(handler.platform_instance_map, RefSource))

\* The iteration on the table at position t raises.
RefTableRaises(t) ==
    \/ RefTables[t].json # "object"
    \/ handler.platform_instance_map.json # "object"
    \/ RefTableUrn(t).raised
    \/ /\ ~RefTableUrn(t).value.isNone
       /\ \E c \in DOMAIN RefChecks : RefChecks[c].json # "object"

\* What the mapper gives for the check at position c under table t.
RefPair(t, c) ==
    _convert_check_to_assertion(RefChecks[c], RefTableUrn(t).value, RefScanId)

\* The check at position c is selected for the table at position t, whose
\* URN is built, and is mapped to a non-null pair.
RefUnit(t, c) ==
    /\ CheckKey(RefChecks[c]) = TableKey(RefTables[t])
    /\ ~RefTableUrn(t).value.isNone
    /\ IsMapped(RefPair(t, c))

\* The three facts of a mapped pair, built for table t and check c.
TripleOf(pair, t, c) ==
    << InfoFact(pair, t, c), PlatformFact(pair, t, c), ResultFact(pair, t, c) >>

\* The facts of the checks from position c on under table t, whose URN is urn.
RECURSIVE RefChecksFrom(_, _, _)
RefChecksFrom(t, urn, c) ==
    IF c > Len(RefChecks) THEN <<>>
    ELSE IF CheckKey(RefChecks[c]) # TableKey(RefTables[t])
         THEN RefChecksFrom(t, urn, c + 1)
         ELSE LET pair == _convert_check_to_assertion(RefChecks[c], urn, RefScanId)
              IN  (IF IsMapped(pair) THEN TripleOf(pair, t, c) ELSE <<>>)
                     \o RefChecksFrom(t, urn, c + 1)

RECURSIVE RefTablesFrom(_)
RefTablesFrom(t) ==
    IF t > Len(RefTables) THEN <<>>
    ELSE IF RefTables[t].json # "object" \/ handler.platform_instance_map.json # "object"
    THEN <<>>
    ELSE LET urn == RefTableUrn(t)
         IN  IF urn.raised THEN <<>>
             ELSE IF urn.value.isNone THEN RefTablesFrom(t + 1)
             ELSE IF \E c \in DOMAIN RefChecks : RefChecks[c].json # "object"
             THEN <<>>
             ELSE RefChecksFrom(t, urn.value, 1) \o RefTablesFrom(t + 1)

\* The facts the failure-free run emits, in order.
ExpectedFacts ==
    IF ScanReadable /\ scan_result.tables.kind # "none" THEN RefTablesFrom(1) ELSE <<>>

\* process_scan_result has returned or raised.
Finished == pc \in {"returned", "raised"}
Succeeded == pc = "returned" /\ result.status = "success"

EmitKinds == << "info", "platform", "result" >>

\* C1: the emit calls come in triples, definition fact, then platform fact
\* (platform "soda"), then outcome fact, the three of one check of one table
\* and addressed by one assertion identifier, so that no emit of another
\* check falls between them; each call, at the point it is made (the last
\* of the log), carries what the mapper gives for a check selected for its
\* table; a call that returns success has made the triple of every check
\* selected for a table and mapped.
C1_TripleOrder ==
    /\ \A i \in DOMAIN emit_calls :
         LET f == emit_calls[i]
         IN  /\ f.kind = EmitKinds[((i - 1) % 3) + 1]
             /\ f.kind = "platform" => f.aspect = [platform |-> s_soda]
             /\ f.kind # "info" =>
                  /\ emit_calls[i - 1].table = f.table
                  /\ emit_calls[i - 1].check = f.check
                  /\ emit_calls[i - 1].entityUrn = f.entityUrn
    /\ emit_calls # <<>> =>
         LET f == emit_calls[Len(emit_calls)]
             pair == RefPair(f.table, f.check)
         IN  /\ CheckKey(RefChecks[f.check]) = TableKey(RefTables[f.table])
             /\ IsMapped(pair)
             /\ f.entityUrn = pair.result.assertionUrn
             /\ f.kind = "info" => f.aspect = pair.info
             /\ f.kind = "result" => f.aspect = pair.result
    /\ Succeeded =>
         \A t \in DOMAIN RefTables : \A c \in DOMAIN RefChecks :
           (CheckKey(RefChecks[c]) = TableKey(RefTables[t])) =>
             LET urn == RefTableUrn(t).value
                 pair == _convert_check_to_assertion(RefChecks[c], urn, RefScanId)
                 triple == TripleOf(pair, t, c)
             IN  (~urn.isNone /\ IsMapped(pair)) =>
                   \E k \in 0..(Len(emit_calls) \div 3 - 1) :
                     SubSeq(emit_calls, 3 * k + 1, 3 * k + 3) = triple

\* C1 witness: a call that returned success after the triples of two checks
\* with different assertion identifiers.
C1_Witness ==
    /\ Succeeded
    /\ Len(emit_calls) = 6
    /\ emit_calls[1].entityUrn # emit_calls[4].entityUrn

\* The number of calls in a log that emit the fact of one kind for the check
\* at position c.
EmitCount(log, c, kind) ==
    Cardinality({i \in DOMAIN log : log[i].check = c /\ log[i].kind = kind})

\* C2 (as claimed): in a call in which every emit succeeds, each check that
\* maps has its definition, platform and outcome fact each emitted exactly
\* once over the whole call, whatever the list of tables.
C2_OncePerCheck ==
    Succeeded =>
      \A c \in DOMAIN RefChecks :
        (\E t \in DOMAIN RefTables : RefUnit(t, c)) =>
          \A k \in {"info", "platform", "result"} : EmitCount(emit_calls, c, k) = 1

\* The number of checks whose three emits have all returned.
CompleteTriples(log) ==
    Cardinality({i \in DOMAIN log :
                   /\ i >= 3
                   /\ log[i].kind = "result"
                   /\ log[i - 1].kind = "platform"
                   /\ log[i - 2].kind = "info"
                   /\ log[i - 1].entityUrn = log[i].entityUrn
                   /\ log[i - 2].entityUrn = log[i].entityUrn})

\* C3: assertions_sent is at every point the number of checks whose three
\* emits have all returned, and the count reported with status success is
\* the number of fully emitted triples of the call.
C3_CounterIsTriples ==
    /\ assertions_sent = CompleteTriples(emitted)
    /\ result.status = "success" => result.assertions_sent = CompleteTriples(emitted)

\* C3 witness: the third emit of the second check failed after the first
\* check's triple was counted.
C3_Witness ==
    /\ thrown = "EmitError"
    /\ Len(emitted) = 5
    /\ assertions_sent = 1

\* C4: an exception raised in the call (by the emitter's constructor, while
\* the scan result is read, in the table loop or by an emit) is caught at
\* the top: a graceful handler returns status error and raises nothing, a
\* strict one re-raises the same exception and returns nothing; no call
\* returns success after an exception.
C4_ExceptionPolicy ==
    /\ thrown # "none" =>
         /\ Finished
         /\ handler.graceful_exceptions =>
              pc = "returned" /\ result.status = "error" /\ exception = "none"
         /\ ~handler.graceful_exceptions =>
              pc = "raised" /\ exception = thrown /\ result = NoResult
    /\ thrown = "none" => exception = "none" /\ result.status # "error"
    /\ Len(emit_calls) # Len(emitted) => thrown = "EmitError"
    /\ (Finished /\ scan_result.json # "object") => thrown # "none"
    /\ Succeeded =>
         /\ thrown = "none"
         /\ ScanReadable
         /\ \A t \in DOMAIN RefTables : ~RefTableRaises(t)

\* C4 witness: an emit raised under a strict handler and the exception
\* reached the caller.
C4_Witness ==
    /\ pc = "raised"
    /\ exception = "EmitError"
    /\ Len(emitted) >= 1

\* C5: a failed emit is not retried and ends the emitting: every step adds
\* at most one call to the calls made; the step whose call fails leaves the
\* loops with the failure as the exception of the call; and once a call has
\* failed no call is made, neither the same one again nor that of a
\* remaining check or table; so the calls of a call in which an emit failed
\* are a prefix of the calls of the failure-free run.
C5_NoRetry ==
    /\ [](thrown = "EmitError" => IsPrefix(emit_calls, ExpectedFacts))
    /\ [][ /\ emit_calls' # emit_calls =>
             /\ Len(emit_calls') = Len(emit_calls) + 1
             /\ SubSeq(emit_calls', 1, Len(emit_calls)) = emit_calls
             /\ IF emit_returned' = emit_returned
                THEN thrown' = "EmitError" /\ Finished'
                ELSE emit_returned' = emit_returned + 1 /\ thrown' = "none"
        /\ emit_returned # Len(emit_calls) => emit_calls' = emit_calls
       ]_vars

\* C5 witness: an emit failed after another had returned, with facts of the
\* failure-free run left unemitted.
C5_Witness ==
    /\ thrown = "EmitError"
    /\ Len(emitted) >= 1
    /\ Len(ExpectedFacts) > Len(emit_calls)

PassWords == { <<"p","a","s","s">>, <<"p","a","s","s","e","d">>,
               <<"s","u","c","c","e","s","s">> }

\* The result type the specification gives an outcome (absent: "unknown").
ExpectedType(outcome) ==
    IF IsStr(outcome) /\ Lower(outcome) \in PassWords THEN "SUCCESS" ELSE "FAILURE"

\* The mapper has been applied to the one check of SpecMapper.
Converted == pc = "emit_info" \/ ci = 2

\* C7: the outcome the mapper yields has result type SUCCESS when the
\* check's outcome is, whatever its case, pass, passed or success, and
\* FAILURE for every other outcome, the empty and the absent one included;
\* the mapper yields an outcome for every check whose outcome is a str or
\* absent and whose type and metrics are well formed.
C7_ResultType ==
    Converted =>
      LET c == checks[1]
          outcome == Get(c.outcome, s_unknown)
      IN  /\ IsMapped(assertion) =>
                /\ assertion.result.type = ExpectedType(outcome)
                /\ c.outcome \in {s_PASS, s_Passed, s_pass, s_success}
                     => assertion.result.type = "SUCCESS"
                /\ c.outcome \in {Missing, <<>>, s_fail, s_passx, s_unknown}
                     => assertion.result.type = "FAILURE"
          /\ (IsStr(outcome) /\ IsStr(c.type) /\ c.metrics.kind # "none")
                => IsMapped(assertion)

\* C7 witness: a check whose outcome is "PASS" in capitals was mapped to an
\* outcome of result type SUCCESS.
C7_Witness ==
    /\ Converted
    /\ checks[1].outcome = s_PASS
    /\ IsMapped(assertion)
    /\ assertion.result.type = "SUCCESS"

\* Every part of the scan result has the JSON type the loops rely on: the
\* scan result, its tables and its checks are objects in lists and the data
\* source name is a str.  What can then fail is local to a table (its URN)
\* or to a check (its mapping).
ScanWellFormed ==
    /\ ScanReadable
    /\ scan_result.tables.kind # "none"
    /\ IsStr(RefSource)
    /\ handler.platform_instance_map.json = "object"
    /\ \A t \in DOMAIN RefTables : RefTables[t].json = "object"
    /\ \A c \in DOMAIN RefChecks : RefChecks[c].json = "object"

\* C8 (as claimed): a failure local to one table or one check never aborts
\* the scan, whatever its cause: when the emitter is constructed and no emit
\* fails, a call on a well-formed scan result raises nothing and ends with
\* status success.
C8_LocalFailureSkipped ==
    (Finished /\ ScanWellFormed /\ thrown \notin {"EmitterError", "EmitError"}) =>
        /\ thrown = "none"
        /\ Succeeded

\* The names of a table are strs or absent, as the data model has them.
TableTyped(t) ==
    /\ t.json = "object"
    /\ t.tableName # None /\ t.schemaName # None /\ t.databaseName # None

\* The scenario of C9: a scan result shaped as the data model has it, with a
\* scanId, in which every check matches exactly one table, that table's URN
\* is built and the check maps.
C9_Scenario ==
    /\ ScanWellFormed
    /\ scan_result.scanId # Missing
    /\ \A t \in DOMAIN RefTables : TableTyped(RefTables[t])
    /\ \A c \in DOMAIN RefChecks :
         /\ Cardinality({t \in DOMAIN RefTables :
                           CheckKey(RefChecks[c]) = TableKey(RefTables[t])}) = 1
         /\ \A t \in DOMAIN RefTables :
              CheckKey(RefChecks[c]) = TableKey(RefTables[t]) => RefUnit(t, c)

\* C9: in that scenario, when the emitter is constructed and every emit
\* succeeds, the call returns status success, assertions_sent equal to the
\* number of checks and the scan result's scanId, and has emitted for each
\* check one outcome whose result type is SUCCESS or FAILURE by that
\* check's own outcome.
C9_EndToEnd ==
    (Finished /\ C9_Scenario /\ thrown \notin {"EmitterError", "EmitError"}) =>
        /\ Succeeded
        /\ result.assertions_sent = Len(RefChecks)
        /\ result.scan_id = scan_result.scanId
        /\ \A c \in DOMAIN RefChecks :
             /\ EmitCount(emitted, c, "result") = 1
             /\ \A i \in DOMAIN emitted :
                  (emitted[i].check = c /\ emitted[i].kind = "result") =>
                     emitted[i].aspect.type = ExpectedType(Get(RefChecks[c].outcome, s_unknown))

\* C9 witness: one table and two checks, one passing and one failing, gave
\* assertions_sent = 2 with one SUCCESS and one FAILURE.
C9_Witness ==
    /\ Succeeded
    /\ C9_Scenario
    /\ Len(RefTables) = 1
    /\ result.assertions_sent = 2
    /\ emitted[3].aspect.type = "SUCCESS"
    /\ emitted[6].aspect.type = "FAILURE"

\* C10: cli.main exits with code 0 exactly when process_scan_result returned
\* status success and with code 1 otherwise; an unreadable or unparsable
\* platform-instance-map or scan-result file ends it with code 1 before the
\* handler is constructed and with nothing emitted; no exception leaves it.
C10_ExitCodes ==
    /\ cli_pc # "crashed"
    /\ exception = "none"
    /\ cli_pc # "exit" => exit_code = -1
    /\ cli_pc = "exit" =>
         /\ exit_code \in {0, 1}
         /\ exit_code = 0 <=> Succeeded
         /\ thrown # "none" => exit_code = 1
         /\ (map_file = "unreadable" \/ ~scan_file.readable) =>
              /\ exit_code = 1
              /\ handler = NoHandler
              /\ pc = "off"
              /\ emit_calls = <<>>

\* C10 witness: an emit failed after another had returned, and cli.main
\* exited with code 1.
C10_Witness ==
    /\ cli_pc = "exit"
    /\ exit_code = 1
    /\ thrown = "EmitError"
    /\ Len(emitted) >= 1

\* The metrics of the one check of SpecMetrics, when they are a list of JSON
\* objects (an absent list reading as the empty one).
MetricsReadable ==
    /\ checks[1].json = "object"
    /\ checks[1].metrics.kind # "none"
    /\ \A i \in DOMAIN checks[1].metrics.items :
         checks[1].metrics.items[i].json = "object"

TheMetrics == checks[1].metrics.items

\* The first metric, in list order, of the aggregation group with a numeric
\* value, as the specification reads actual_agg_value.
RECURSIVE FirstAgg(_)
FirstAgg(ms) ==
    IF ms = <<>> THEN NoInt
    ELSE IF Get(Head(ms).id, <<>>) \in { s_min, s_max, <<"a","v","g">>,
                                         <<"s","u","m">>, <<"c","o","u","n","t">> }
            /\ Head(ms).value.t \in {"int", "float", "inf", "bool"}
         THEN [some |-> TRUE, n |-> Head(ms).value.n, t |-> Head(ms).value.t]
         ELSE FirstAgg(Tail(ms))

\* C15 (as claimed): actual_agg_value is the value of the first metric, in
\* list order, whose id is one of min, max, avg, sum, count and whose value
\* is numeric; later matching metrics do not overwrite it.
C15_FirstAggWins ==
    (Converted /\ IsMapped(assertion)) =>
        assertion.result.actualAggValue = FirstAgg(TheMetrics)

\* C17: the mapper never propagates an exception: it leaves the caller in
\* its loop with nothing raised, and what it returns is (None, None) or a
\* pair of a definition and an outcome, never one of the two alone; a check
\* that is no JSON object, a type or an outcome that is no str, metrics that
\* are null or hold an entry that is no JSON object give (None, None).
C17_NeverPropagates ==
    /\ pc \in {"checks", "emit_info"}
    /\ thrown = "none" /\ exception = "none" /\ result = NoResult
    /\ Converted =>
         /\ assertion.info.isNone <=> assertion.result.isNone
         /\ IsMapped(assertion) <=> pc = "emit_info"
         /\ (\/ ~MetricsReadable
             \/ ~IsStr(checks[1].type)
             \/ ~IsStr(checks[1].outcome)) => assertion = NonePair

\* C17 witness: a check whose metrics hold an entry that is no JSON object
\* was mapped to (None, None) and the loop went on.
C17_Witness ==
    /\ Converted
    /\ checks[1].json = "object"
    /\ checks[1].metrics.kind = "list"
    /\ \E i \in DOMAIN TheMetrics : TheMetrics[i].json # "object"
    /\ IsStr(checks[1].type) /\ IsStr(checks[1].outcome)
    /\ assertion = NonePair
    /\ pc = "checks"

\* The count the claim gives the metrics with one id: null when no metric
\* has the id, else what a best-effort integer parse gives the value of the
\* last of them, null when it cannot be parsed.
RECURSIVE ExpectedCount(_, _)
ExpectedCount(ms, id) ==
    IF ms = <<>> THEN NoInt
    ELSE LET last == ms[Len(ms)]
         IN  IF Get(last.id, <<>>) = id
             THEN IF last.value.t = "inf" THEN NoInt
                  ELSE parse_int_or_default(last.value).value
             ELSE ExpectedCount(SubSeq(ms, 1, Len(ms) - 1), id)

\* C18 (as claimed): for a check whose type and outcome are strs and whose
\* metrics are a list of JSON objects, parsing never raises, so the check
\* maps, and row_count, missing_count and unexpected_count are the
\* best-effort integer parse of the metrics with those ids, null when the
\* metric is absent or its value is null or cannot be parsed; metrics with
\* other ids change none of the three.
C18_CountsBestEffort ==
    (Converted /\ MetricsReadable /\ IsStr(checks[1].type) /\ IsStr(checks[1].outcome)) =>
        /\ IsMapped(assertion)
        /\ assertion.result.rowCount = ExpectedCount(TheMetrics, m_row_count)
        /\ assertion.result.missingCount = ExpectedCount(TheMetrics, m_missing_count)
        /\ assertion.result.unexpectedCount = ExpectedCount(TheMetrics, m_unexpected_count)

\* The part of C18 that holds: the same, for metrics none of whose counts is
\* the float inf.
C18_FiniteCounts ==
    (Converted /\ MetricsReadable /\ IsStr(checks[1].type) /\ IsStr(checks[1].outcome)
       /\ \A i \in DOMAIN TheMetrics : TheMetrics[i].value.t # "inf") =>
        /\ IsMapped(assertion)
        /\ assertion.result.rowCount = ExpectedCount(TheMetrics, m_row_count)
        /\ assertion.result.missingCount = ExpectedCount(TheMetrics, m_missing_count)
        /\ assertion.result.unexpectedCount = ExpectedCount(TheMetrics, m_unexpected_count)

\* The lower-cased type of the one check of SpecClassify.
TypeLower == Lower(Get(checks[1].type, s_unknown))

\* C11 (as claimed): a check whose type contains "unique" and whose column
\* is non-null is classified with scope DATASET_COLUMN and aggregation
\* UNIQUE_COUNT, for every such check type and column value.
C11_UniqueAnyType ==
    (Converted /\ Contains(TypeLower, <<"u","n","i","q","u","e">>)
       /\ checks[1].column \notin {None, Missing}) =>
        /\ IsMapped(assertion)
        /\ assertion.info.scope = "DATASET_COLUMN"
        /\ assertion.info.aggregation = "UNIQUE_COUNT"

\* C11 (amended): a check whose lower-cased type contains "unique" but
\* neither "null" nor "missing", and whose column is a non-empty str, is
\* classified with scope DATASET_COLUMN and aggregation UNIQUE_COUNT.
C11_UniqueColumn ==
    (Converted /\ Contains(TypeLower, <<"u","n","i","q","u","e">>)
       /\ ~Contains(TypeLower, <<"n","u","l","l">>)
       /\ ~Contains(TypeLower, <<"m","i","s","s","i","n","g">>)
       /\ checks[1].column \notin {None, Missing, <<>>}) =>
        /\ IsMapped(assertion)
        /\ assertion.info.scope = "DATASET_COLUMN"
        /\ assertion.info.aggregation = "UNIQUE_COUNT"

\* C11 witness: a check of type "unique_count" on a column was classified
\* DATASET_COLUMN / UNIQUE_COUNT.
C11_Witness ==
    /\ Converted
    /\ checks[1].type = <<"u","n","i","q","u","e","_","c","o","u","n","t">>
    /\ checks[1].column = s_id
    /\ IsMapped(assertion)
    /\ assertion.info.scope = "DATASET_COLUMN"
    /\ assertion.info.aggregation = "UNIQUE_COUNT"

\* The rule list of the specification, on a lower-cased type and on whether
\* a column is present: << scope, operator, aggregation >>.
ExpectedClass(t, column) ==
    LET has(w) == Contains(t, w)
        scoped == IF column THEN "DATASET_COLUMN" ELSE "DATASET_ROWS"
    IN  CASE has(<<"n","u","l","l">>) \/ has(<<"m","i","s","s","i","n","g">>)
               -> << scoped, "NOT_NULL", "IDENTITY" >>
          [] ~(has(<<"n","u","l","l">>) \/ has(<<"m","i","s","s","i","n","g">>))
             /\ has(<<"u","n","i","q","u","e">>)
               -> << scoped, "_NATIVE_", "UNIQUE_COUNT" >>
          [] ~(has(<<"n","u","l","l">>) \/ has(<<"m","i","s","s","i","n","g">>))
             /\ ~has(<<"u","n","i","q","u","e">>)
             /\ has(<<"c","o","u","n","t">>)
               -> << "DATASET_ROWS", "_NATIVE_", "ROW_COUNT" >>
          [] ~(has(<<"n","u","l","l">>) \/ has(<<"m","i","s","s","i","n","g">>))
             /\ ~has(<<"u","n","i","q","u","e">>)
             /\ ~has(<<"c","o","u","n","t">>)
             /\ has(<<"s","c","h","e","m","a">>)
               -> << "DATASET_SCHEMA", "_NATIVE_", "COLUMNS" >>
          [] OTHER -> << scoped, "_NATIVE_", "_NATIVE_" >>

\* C16: for every check type and column, the check maps and its scope,
\* operator and aggregation are those of the ordered rule list on the
\* lower-cased type, first matching rule wins; a column is present when the
\* check's column is a non-empty str.
C16_RuleList ==
    Converted =>
        /\ IsMapped(assertion)
        /\ << assertion.info.scope, assertion.info.operator,
              assertion.info.aggregation >>
             = ExpectedClass(TypeLower, checks[1].column \notin {None, Missing, <<>>})

\* C16 witness: a check of type "schema_count" on a column, which matches
\* the count rule and the schema rule, was classified row-scoped ROW_COUNT.
C16_Witness ==
    /\ Converted
    /\ checks[1].type = <<"s","c","h","e","m","a","_","c","o","u","n","t">>
    /\ checks[1].column = s_id
    /\ IsMapped(assertion)
    /\ assertion.info.scope = "DATASET_ROWS"
    /\ assertion.info.aggregation = "ROW_COUNT"

\* The canonical tuple of a check under the dataset of SpecIds: platform,
\* check type, definition, dataset identifier, field ids and check name.
FieldsOf(c) ==
    IF c.column \in {None, Missing, <<>>} THEN <<>>
    ELSE << [dataset |-> dataset_urn, field |-> c.column] >>

CanonicalTuple(c) ==
    << s_soda, Get(c.type, s_unknown), Get(c.definition, <<>>), dataset_urn,
       FieldsOf(c), Get(c.name, s_unknown_check) >>

\* C12: the assertion identifier is a function of the canonical tuple: two
\* mapper calls on checks with the same tuple address their facts by the
\* same identifier, and two checks that differ in check name, definition or
\* fields are addressed by different identifiers.
C12_IdOfTuple ==
    \A i, j \in DOMAIN emit_calls :
        LET a == checks[emit_calls[i].check]
            b == checks[emit_calls[j].check]
        IN  /\ CanonicalTuple(a) = CanonicalTuple(b)
                  => emit_calls[i].entityUrn = emit_calls[j].entityUrn
            /\ (\/ Get(a.name, s_unknown_check) # Get(b.name, s_unknown_check)
                \/ Get(a.definition, <<>>) # Get(b.definition, <<>>)
                \/ FieldsOf(a) # FieldsOf(b))
                  => emit_calls[i].entityUrn # emit_calls[j].entityUrn

\* C12 witness: two checks that differ only in their name were emitted
\* under different identifiers.
C12_Witness ==
    /\ Len(emit_calls) = 6
    /\ checks[1].name # checks[2].name
    /\ checks[1].type = checks[2].type
    /\ checks[1].definition = checks[2].definition
    /\ checks[1].column = checks[2].column
    /\ emit_calls[1].entityUrn # emit_calls[4].entityUrn

\* C13: validate_governance_policies on a list of N policies returns
\* policies_validated = N, compliant = 0, non_compliant = 0 and N detail
\* entries in the order of the policies, each with status "validated" and
\* the policy's name and type ("unknown" where the key is absent), and the
\* dataset identifier it was given; it returns for every list of policies
\* that are JSON objects.
C13_StubValidation ==
    /\ gov_pc = "returned" =>
         LET N == Len(policies.items)
         IN  /\ validation_results.policies_validated = N
             /\ validation_results.compliant = 0
             /\ validation_results.non_compliant = 0
             /\ validation_results.dataset_urn = gov_dataset_urn
             /\ Len(validation_results.details) = N
             /\ \A i \in 1..N :
                  /\ validation_results.details[i].status = "validated"
                  /\ validation_results.details[i].policy =
                       (IF policies.items[i].name = Missing THEN s_unknown
                        ELSE policies.items[i].name)
                  /\ validation_results.details[i].type =
                       (IF policies.items[i].type = Missing THEN s_unknown
                        ELSE policies.items[i].type)
    /\ gov_pc = "raised" =>
         \/ policies.kind = "none"
         \/ \E i \in DOMAIN policies.items : policies.items[i].json # "object"

\* C13 witness: the call returned on two policies, the second with neither
\* name nor type, with two detail entries.
C13_Witness ==
    /\ gov_pc = "returned"
    /\ Len(policies.items) = 2
    /\ policies.items[2].name = Missing
    /\ Len(validation_results.details) = 2
    /\ validation_results.details[2].policy = s_unknown

\* The names NextTable read from the first table (lines 161-163).
UrnTableName == Get(tables.items[1].tableName, <<>>)
UrnSchemaName == Get(tables.items[1].schemaName, <<>>)
UrnDatabaseName == Get(tables.items[1].databaseName, <<>>)

\* The same call on a handler whose convert_urns_to_lowercase is off.
PlainUrn ==
    _build_dataset_urn([handler EXCEPT !.convert_urns_to_lowercase = FALSE],
                       data_source_name, UrnDatabaseName, UrnSchemaName, UrnTableName,
                       platform_instance_of(handler.platform_instance_map,
                                            data_source_name))

\* C14: the dataset URN the table loop holds is the value of
\* _build_dataset_urn on its arguments and the handler's configuration;
\* with convert_urns_to_lowercase set it differs from the URN of the same
\* call without the setting in the name only, which is the lowercase of the
\* composed name; the platform is the platform_alias as given (or the data
\* source name) and the environment is the handler's env as given.
C14_LowercaseNameOnly ==
    pc = "checks" =>
        /\ dataset_urn =
             _build_dataset_urn(handler, data_source_name, UrnDatabaseName,
                                UrnSchemaName, UrnTableName,
                                platform_instance_of(handler.platform_instance_map,
                                                     data_source_name)).value
        /\ ~PlainUrn.raised /\ ~PlainUrn.value.isNone
        /\ dataset_urn.name = (IF handler.convert_urns_to_lowercase
                               THEN Lower(PlainUrn.value.name)
                               ELSE PlainUrn.value.name)
        /\ dataset_urn.platform = PlainUrn.value.platform
        /\ dataset_urn.platform = (IF Truthy(handler.platform_alias)
                                   THEN handler.platform_alias
                                   ELSE Lower(data_source_name))
        /\ dataset_urn.env = handler.env
        /\ dataset_urn.instance = PlainUrn.value.instance

\* C14 witness: a URN built with convert_urns_to_lowercase set, from
\* capitalised names under a capitalised alias and environment: the name is
\* folded, the alias and the environment are not.
C14_Witness ==
    /\ pc = "checks"
    /\ handler.convert_urns_to_lowercase
    /\ handler.platform_alias = s_Pg
    /\ handler.env = s_Dev
    /\ UrnDatabaseName = s_Db /\ UrnSchemaName = s_Sc /\ UrnTableName = s_Tb
    /\ dataset_urn.name = <<"d","b",".","s","c",".","t","b">>
    /\ dataset_urn.platform = s_Pg
    /\ dataset_urn.env = s_Dev

\* The non-empty ones of three parts, joined by dots.
JoinNonEmpty(database_name, schema_name, table_name) ==
    LET parts == SelectSeq(<< database_name, schema_name, table_name >>, Truthy)
    IN  IF Len(parts) = 0 THEN <<>>
        ELSE IF Len(parts) = 1 THEN parts[1]
        ELSE IF Len(parts) = 2 THEN parts[1] \o s_dot \o parts[2]
        ELSE parts[1] \o s_dot \o parts[2] \o s_dot \o parts[3]

\* C19: the name of a built dataset URN is made of exactly the non-empty
\* ones of database, schema and table name, in that order: every non-empty
\* part appears in it and no empty part contributes a segment.
C19_NonEmptyParts ==
    pc = "checks" =>
        LET joined == JoinNonEmpty(UrnDatabaseName, UrnSchemaName, UrnTableName)
        IN  dataset_urn.name = (IF handler.convert_urns_to_lowercase
                                THEN Lower(joined) ELSE joined)

\* C19: the three branches of lines 271-277 as they are written: the
\* database is used only next to a non-empty schema, and the table name is
\* appended whether or not it is empty.
C19_ThreeBranches ==
    pc = "checks" =>
        LET composed ==
                IF Truthy(UrnDatabaseName) /\ Truthy(UrnSchemaName)
                THEN UrnDatabaseName \o s_dot \o UrnSchemaName \o s_dot
                         \o Fmt(UrnTableName)
                ELSE IF Truthy(UrnSchemaName)
                THEN UrnSchemaName \o s_dot \o Fmt(UrnTableName)
                ELSE UrnTableName
        IN  dataset_urn.name = (IF handler.convert_urns_to_lowercase
                                THEN Lower(composed) ELSE composed)

\* C20: the emit calls are table-major: a call made later is for the same
\* table or one later in the tables list, and within one table for the same
\* check or one later in the checks list; and the calls of a run that
\* returns success are the sequence fixed by the scan result and the
\* handler's configuration.
C20_TableMajor ==
    /\ \A i, j \in DOMAIN emit_calls :
         i < j =>
           \/ emit_calls[i].table < emit_calls[j].table
           \/ /\ emit_calls[i].table = emit_calls[j].table
              /\ emit_calls[i].check <= emit_calls[j].check
    /\ Succeeded => emit_calls = ExpectedFacts

\* C20 witness: a successful run that emitted for two checks of the first
\* table and then for a check of the second table.
C20_Witness ==
    /\ Succeeded
    /\ Len(emit_calls) >= 9
    /\ emit_calls[1].table = 1 /\ emit_calls[1].check = 1
    /\ emit_calls[4].table = 1 /\ emit_calls[4].check = 2
    /\ emit_calls[7].table = 2

\* What an emit call says of the check selected and of its assertion.
EmitKey(f) == << f.kind, f.table, f.check, f.entityUrn >>

\* C21: no step of process_scan_result changes the scan result or a field
\* of the handler, whether the call returns success, returns an error or
\* raises; and in a second call on the same scan result every emit is for
\* the check, of the table, with the assertion identifier, of the emit at
\* the same position of the first call, two calls that both return success
\* having made the same emits.
C21_InputsUnchanged ==
    /\ [](call_no = 2 =>
            /\ \A i \in DOMAIN emit_calls \cap DOMAIN first_call.emit_calls :
                 EmitKey(emit_calls[i]) = EmitKey(first_call.emit_calls[i])
            /\ (Succeeded /\ first_call.result.status = "success") =>
                 Len(emit_calls) = Len(first_call.emit_calls))
    /\ [][handler' = handler /\ scan_result' = scan_result]_vars

\* C21 witness: a second call returned success, as the first had, after the
\* emits of two checks.
C21_Witness ==
    /\ call_no = 2
    /\ Succeeded
    /\ first_call.result.status = "success"
    /\ Len(emit_calls) = 6
    /\ scan_result.checks.items[1].metrics.kind = "list"
    /\ emit_calls[1].entityUrn # emit_calls[4].entityUrn

=============================================================================
